---- MODULE Spec2Model ----
(***************************************************************************)
(* Object resolver of the PDF parser: ObjectCache::retrieve_object_by_ref, *)
(* the parse it drives (parse_object_at, make_object_from_object_buffer,   *)
(* make_stream_object, parse_stream) and the typed accessors of PdfObject  *)
(* that resolve a Reference through the resolver.                          *)
(*                                                                         *)
(* Rust calls are synchronous and re-entrant, so the model keeps an        *)
(* explicit call stack of frames.  A call that makes no nested call is one *)
(* atomic step; a call that does make one is cut at the call site.         *)
(* The repository holds two ObjectCache implementations: the one of        *)
(* object_cache.rs (reader owned, compressed locations) and the one of     *)
(* pdf_file.rs (reader in a RefCell, offsets only); `resolver` says which  *)
(* one a behaviour runs.                                                   *)
(***************************************************************************)
EXTENDS Integers, Sequences, FiniteSets, TLC

\* ---------------------------------------------------------------- bounds
NumIds == 2          \* object numbers 1..NumIds, generation 0
StackLimit == 9      \* call frames the native stack holds before it overflows
MaxParses == 2       \* top-level retrievals are offered while an id was parsed less often
MaxBody == 2         \* bytes after a `stream` line
MaxKids == 2         \* entries of a /Kids array
MaxFilters == 2      \* entries of a /Filter or /DecodeParms array
DataLen == 1         \* bytes of every stream body, and the value of every integer object
MaxContents == 2     \* entries of a /Contents array
MaxData == 2         \* decoded bytes of one stream of /Contents
MaxLines == 5        \* lines of the file after its `xref` line
MaxBuf == 3          \* bytes of the buffer of a PdfFileReader
MaxTokens == 4       \* tokens between the brackets of a parsed array or dictionary
MaxText == 6         \* bytes of a literal or hexadecimal string after its opening byte
MaxWords == 4        \* words of the header of an object stream
MaxHex == 4          \* bytes given to the ASCIIHex filter
MaxAscii85 == 5      \* bytes given to the ASCII85 filter before its end marker
MaxDecoded == 4      \* bytes of decoded data handed to the predictors

Ids == 1..NumIds

next_id(k) == (k % NumIds) + 1

\* ---------------------------------------------------------------- objects
\* PdfObject: t is the variant, v its payload (integer value, target id of a
\* Reference, target id of the sole Reference element of an Array, slot of an
\* ObjectStream, byte count of a stream); lk/lv describe the /Length entry of a
\* dictionary, ty its /Type; s is the identity of the Rc allocation (0 while
\* the value is not owned by the cache).
Mk(t, v) == [t |-> t, v |-> v, lk |-> "none", lv |-> 0, ty |-> "none", s |-> 0]

NoObject == Mk("none", 0)

NumberInt(n) == Mk("NumberInt", n)

Reference(id) == Mk("Reference", id)

Array(id) == Mk("Array", id)

Dictionary(lk, lv, ty) == [t |-> "Dictionary", v |-> 0, lk |-> lk, lv |-> lv, ty |-> ty, s |-> 0]

IsReference(o) == o.t = "Reference"

\* Result<T>: st is "ok" or "err"; src is the id a retrieve_object_by_ref
\* returned for (0 for an accessor).  NoRet: no call has returned yet.
Ok(o, src) == [st |-> "ok", obj |-> o, err |-> "none", src |-> src]

Err(e, src) == [st |-> "err", obj |-> NoObject, err |-> e, src |-> src]

NoRet == [st |-> "none", obj |-> NoObject, err |-> "none", src |-> 0]

\* What the caller asked for: retrieve_object_by_ref(id), or accessor op on a
\* Reference to id that it holds (from the trailer or from a parsed container).
NoCall == [kind |-> "none", op |-> "none", id |-> 0]

Ops == {"int", "array", "index"}

\* ObjectLocation
NoLocation == [loc |-> "none", at |-> 0]

Uncompressed(ix) == [loc |-> "Uncompressed", at |-> ix]

Compressed(parent) == [loc |-> "Compressed", at |-> parent]

\* ---------------------------------------------------------------- the file
\* What is written at a slot: b is the shape of the body, tgt the id its
\* indirect reference (if any) names.
Body(b, tgt) == [b |-> b, tgt |-> tgt]

RefTargets(k) == {k, next_id(k)}

PlainBodies(k) ==
    {Body("int", 0), Body("bad", 0), Body("stream", 0)}
    \cup {Body(b, t) : b \in {"ref", "array", "stream_ref"}, t \in RefTargets(k)}

ParentBodies(k) ==
    {Body("objstm", 0), Body("int", 0)}
    \cup {Body(b, t) : b \in {"objstm_ref", "ref"}, t \in RefTargets(k)}

BareBodies(k) ==
    {Body("int", 0), Body("bad", 0)}
    \cup {Body(b, t) : b \in {"ref", "array"}, t \in RefTargets(k)}

\* Cross-reference indexes: every id at its own offset; one id missing; every
\* id at the offset of the next object; every id but p inside object stream p.
PlainIndex == [k \in Ids |-> Uncompressed(k)]

MissingIndex(m) == [k \in Ids |-> IF k = m THEN NoLocation ELSE Uncompressed(k)]

ShiftedIndex == [k \in Ids |-> Uncompressed(next_id(k))]

CompressedIndex(p) == [k \in Ids |-> IF k = p THEN Uncompressed(k) ELSE Compressed(p)]

VARIABLES
    resolver,        \* "object_cache" | "pdf_file": which ObjectCache runs
    file,            \* slot -> Body
    index_map,       \* ObjectCache.index_map
    cache,           \* ObjectCache.cache: id -> object or NoObject
    cache_borrowed,  \* a RefMut of ObjectCache.cache is live
    reader_borrowed, \* pdf_file.rs: a RefMut of ObjectCache.reader is live
    alive,           \* a strong Rc<ObjectCache> exists
    stack,           \* call frames, innermost last
    ret,             \* value the last finished call returned
    call,            \* the caller's current or last call: kind, accessor, id
    status,          \* "running" | "panic_borrow" | "panic_upgrade" | "stack_overflow"
    parses,          \* id -> number of parses started for it
    next_serial      \* identity given to the next Rc<PdfObject> the resolver allocates

resolver_vars == <<resolver, file, index_map, cache, cache_borrowed, reader_borrowed,
                   alive, stack, ret, call, status, parses, next_serial>>

\* One stream object on its way through make_stream_object and parse_stream.
VARIABLES
    stream_dict,     \* the dictionary before the `stream` keyword
    body_len,        \* bytes the reader holds after the `stream` line
    after_body,      \* what the bytes after the first /Length of them are
    stream_pc,       \* "none" | "make" | "parse" | "decode" | "done"
    stream_out       \* what the parser returns for the stream

stream_vars == <<stream_dict, body_len, after_body, stream_pc, stream_out>>

\* The page tree of a PdfDoc, one get_page call, and the Pages iterator.
VARIABLES
    tree,            \* PageTree.tree from its root node down
    page_number,     \* get_page: its argument
    current_node,    \* get_page: current_node, as the child positions from the root
    child,           \* get_page: position of the `for child in children` loop
    pages_passed,    \* get_page: pages_passed
    page,            \* what get_page returned
    page_pc,         \* "none" | "idle" | "for" | "returned" | "finished"
    current_page,    \* Pages.current_page
    counter,         \* pages the iteration has yielded
    attribute        \* what Page::get_attribute returned for the page

page_vars == <<tree, page_number, current_node, child, pages_passed, page, page_pc,
               current_page, counter, attribute>>

\* The /Contents entry of one Page and one contents_as_binary call.
VARIABLES
    contents,        \* Node.contents of the page, references resolved
    content_bytes    \* what contents_as_binary returned

contents_vars == <<contents, content_bytes>>

\* One Parser::create_pdf_from_file call up to the cross-reference index.
VARIABLES
    build,           \* "debug" | "release": whether debug assertions are compiled in
    pdf,             \* the file: its last three lines, the line at the offset, the lines after it
    xref_pc,         \* "none" | "find" | "stream" | "table" | "loop" | "done"
    line_no,         \* process_standard_xref_table: the reader's line, 0 being the `xref` line
    obj_number,      \* process_standard_xref_table: obj_number
    objects_to_go,   \* process_standard_xref_table: objects_to_go
    xref_index,      \* process_standard_xref_table: index_map
    pdf_out          \* what the call returned

xref_vars == <<build, pdf, xref_pc, line_no, obj_number, objects_to_go, xref_index, pdf_out>>

\* One PdfFileReader and the operations called on it.
VARIABLES
    data,            \* PdfFileReader.data
    cursor,          \* PdfFileReader.cursor
    debug_build,     \* debug assertions and overflow checks are compiled in
    reader_out       \* the last operation, its argument, and what it returned

reader_vars == <<data, cursor, debug_build, reader_out>>

\* One parse_object_at call on the reader (data, cursor), with the calls it
\* makes to itself for nested arrays and dictionaries.
VARIABLES
    parse_stack,     \* the frames of parse_object_at, innermost last
    parse_out,       \* what the outermost parse_object_at returned
    referent,        \* what the resolver gives for a Reference it is asked to resolve
    resolved         \* the parse asked the resolver to resolve a Reference

parse_vars == <<parse_stack, parse_out, referent, resolved>>

\* One object stream on its way through PdfObject::new_object_stream, and a
\* retrieval from the ObjectStreamCache it makes.
VARIABLES
    objstm,          \* /N, /First, the words of data[..First], whether these bytes are UTF-8, and the length of the data
    object_index,    \* the index of the ObjectStreamCache: records [id, at]
    objstm_pc,       \* "none" | "new" | "built" | "done"
    objstm_out       \* what new_object_stream and then retrieve_object_by_ref returned

objstm_vars == <<objstm, object_index, objstm_pc, objstm_out>>


\* ---- the stream filters (decode.rs)
VARIABLES
    filter_job,      \* the filter applied, the bytes it is given and its /DecodeParms
    ascii85_iter,    \* Ascii85Iterator's data_cursor and the bytes decoded so far
    filter_pc,       \* "none" | "apply" | "groups" | "done"
    filter_out       \* what the filter returned

filter_vars == <<filter_job, ascii85_iter, filter_pc, filter_out>>


\* ---- PageTree::new (pdf_doc.rs): the page tree being built from the objects
VARIABLES
    objects,         \* the object of each id: its kind, /Pages and /Kids
    new_node,        \* the id add_node is being called with; 0: no call is starting
    add_node_stack,  \* the add_node calls in progress: the node and the next kid of its loop
    tree_len,        \* nodes inserted into PageTree.tree
    build_out        \* what PageTree::new returned

build_vars == <<objects, new_node, add_node_stack, tree_len, build_out>>

\* Everything but the resolver.
document_vars == <<stream_vars, page_vars, contents_vars, xref_vars, reader_vars, parse_vars, objstm_vars, filter_vars, build_vars>>

other_than_stream == <<resolver_vars, page_vars, contents_vars, xref_vars, reader_vars, parse_vars, objstm_vars, filter_vars, build_vars>>

other_than_pages == <<resolver_vars, stream_vars, contents_vars, xref_vars, reader_vars, parse_vars, objstm_vars, filter_vars, build_vars>>

other_than_contents == <<resolver_vars, stream_vars, page_vars, xref_vars, reader_vars, parse_vars, objstm_vars, filter_vars, build_vars>>

other_than_xref == <<resolver_vars, stream_vars, page_vars, contents_vars, reader_vars, parse_vars, objstm_vars, filter_vars, build_vars>>

other_than_reader == <<resolver_vars, stream_vars, page_vars, contents_vars, xref_vars, parse_vars, objstm_vars, filter_vars, build_vars>>

other_than_parse == <<resolver_vars, stream_vars, page_vars, contents_vars, xref_vars, reader_vars, objstm_vars, filter_vars, build_vars>>

vars == <<resolver_vars, document_vars>>

\* ---------------------------------------------------------------- parsing
\* The object buffer parse_object_at has built when it reaches the keyword
\* that ends the indirect object at slot ix, and that keyword.
object_buffer_at(ix) ==
    LET hdr == <<NumberInt(ix), NumberInt(0)>>
        b == file[ix].b
        t == file[ix].tgt
    IN CASE b = "int" -> [buf |-> hdr \o <<NumberInt(DataLen)>>, kw |-> "endobj"]
         [] b = "bad" -> [buf |-> hdr, kw |-> "endobj"]
         [] b = "ref" -> [buf |-> hdr \o <<Reference(t)>>, kw |-> "endobj"]
         [] b = "array" -> [buf |-> hdr \o <<Array(t)>>, kw |-> "endobj"]
         [] b = "stream" -> [buf |-> hdr \o <<Dictionary("int", DataLen, "none")>>, kw |-> "stream"]
         [] b = "stream_ref" -> [buf |-> hdr \o <<Dictionary("ref", t, "none")>>, kw |-> "stream"]
         [] b = "objstm" -> [buf |-> hdr \o <<Dictionary("int", DataLen, "ObjStm")>>, kw |-> "stream"]
         [] b = "objstm_ref" -> [buf |-> hdr \o <<Dictionary("ref", t, "ObjStm")>>, kw |-> "stream"]

\* The `N G` the parser holds as the first two buffer entries once it has read
\* `obj` at slot ix.
header_at(ix) == <<object_buffer_at(ix).buf[1].v, object_buffer_at(ix).buf[2].v>>

is_int(o) == o.t = "NumberInt"

make_object_from_object_buffer(buf) ==
    IF Len(buf) # 3 THEN Err("ParsingError", 0)
    ELSE IF ~is_int(buf[1]) \/ ~is_int(buf[2]) THEN Err("ParsingError", 0)
    ELSE Ok(buf[3], 0)

\* make_stream_object up to the point where /Length is converted to an
\* integer: an error, or the /Length object (Actual or Reference).
stream_length_entry(buf) ==
    IF Len(buf) # 3 THEN Err("ParsingError", 0)
    ELSE IF buf[3].t # "Dictionary" THEN Err("ParsingError", 0)
    ELSE IF buf[3].lk = "none" THEN Err("ParsingError", 0)
    ELSE IF buf[3].lk = "int" THEN Ok(NumberInt(buf[3].lv), 0)
    ELSE Ok(Reference(buf[3].lv), 0)

\* determine_stream_type on the names under /Type and /Subtype ("none": the
\* key is absent).
determine_stream_type(type, subtype) ==
    IF type = "ObjStm" THEN "Object"
    ELSE IF type = "XRef" THEN "XRef"
    ELSE IF type = "Metadata" THEN "Metadata"
    ELSE IF subtype = "Image" THEN "Image"
    ELSE IF type = "none" /\ subtype = "none" THEN "Content"
    ELSE "Unknown"

\* The PdfData variant parse_stream builds for a stream type; "none" where it
\* returns the `not implemented` error instead.
stream_variant(stream_type) ==
    CASE stream_type = "Image" -> "BinaryStream"
      [] stream_type = "XRef" -> "BinaryStream"
      [] stream_type = "Object" -> "ObjectStream"
      [] stream_type = "Content" -> "ContentStream"
      [] OTHER -> "none"

\* make_stream_object from the integer /Length on: read_n(Length) yields at
\* most the DataLen bytes that are there; then classification.
finish_stream_object(ix, buf, length) ==
    LET got == IF length < 0 \/ length > DataLen THEN DataLen ELSE length
    IN IF got # length THEN Err("ParsingError", 0)
       ELSE Ok([buf[3] EXCEPT !.t = stream_variant(determine_stream_type(buf[3].ty, "none")),
                             !.v = ix], 0)

\* ---------------------------------------------------------------- streams
\* Names a /Filter entry can hold: one that Filter::apply implements, one that
\* filter_from_string_and_params knows and apply rejects, one nobody knows.
FilterNames == {"ASCIIHexDecode", "JPXDecode", "Bogus"}

KnownFilters == {"ASCIIHexDecode", "ASCII85Decode", "JPXDecode", "RunLengthDecode",
                 "LZWDecode", "FlateDecode", "CCITTFaxDecode", "JBIG2Decode",
                 "DCTDecode", "Crypt"}

AppliedFilters == {"ASCIIHexDecode", "ASCII85Decode", "LZWDecode", "FlateDecode"}

SeqsUpTo(S, n) == UNION {[1..k -> S] : k \in 0..n}

\* /Filter: absent, one name, an array of names, or some other object.
FilterEntries ==
    {[form |-> "absent", names |-> <<>>], [form |-> "int", names |-> <<>>]}
    \cup {[form |-> "name", names |-> <<f>>] : f \in FilterNames}
    \cup {[form |-> "array", names |-> fs] : fs \in SeqsUpTo(FilterNames, MaxFilters)}

\* /DecodeParms: absent, one dictionary, or an array of len dictionaries.
ParmsEntries ==
    {[form |-> "absent", len |-> 0], [form |-> "dict", len |-> 0]}
    \cup {[form |-> "array", len |-> n] : n \in 0..MaxFilters}

\* /Length: absent, a name, or an integer.
LengthEntries == {NoObject, Mk("Name", 0)} \cup {NumberInt(n) : n \in -1..MaxBody}

StreamDicts ==
    [Length : LengthEntries,
     Type : {"none", "ObjStm", "XRef", "Metadata", "Catalog"},
     Subtype : {"none", "Image", "Form"},
     Filter : FilterEntries,
     DecodeParms : ParmsEntries]

NoStreamOut == [st |-> "none", kind |-> "none", err |-> "none", raw |-> 0, applied |-> <<>>]

StreamErr(e) == [NoStreamOut EXCEPT !.st = "err", !.err = e]

StreamPanic(e) == [NoStreamOut EXCEPT !.st = "panic", !.err = e]

NoStream ==
    /\ stream_dict = [Length |-> NoObject, Type |-> "none", Subtype |-> "none",
                      Filter |-> [form |-> "absent", names |-> <<>>],
                      DecodeParms |-> [form |-> "absent", len |-> 0]]
    /\ body_len = 0
    /\ after_body = "none"
    /\ stream_pc = "none"
    /\ stream_out = NoStreamOut

\* ---------------------------------------------------------------- page tree
\* A node of the page tree: its /Type, its children in /Kids order, its
\* /Count, and the value its dictionary holds under the attribute key asked
\* for (0: the key is absent).
PageNode(attr) == [type |-> "Page", kids |-> <<>>, count |-> 0, attr |-> attr]

\* Page leaves under a node, and under the kids from position i on.
RECURSIVE leaves(_), leaves_of(_, _)
leaves(node) == IF node.type = "Page" THEN 1 ELSE leaves_of(node.kids, 1)

leaves_of(kids, i) == IF i > Len(kids) THEN 0 ELSE leaves(kids[i]) + leaves_of(kids, i + 1)

\* An intermediate node whose /Count is off by skew from the leaves under it.
PagesNode(kids, skew, attr) ==
    [type |-> "Pages", kids |-> kids, attr |-> attr,
     count |-> IF leaves_of(kids, 1) + skew < 0 THEN 0 ELSE leaves_of(kids, 1) + skew]

\* Trees of a root, intermediate nodes under it, and pages under either.
LowerNodes(skew, attrs) ==
    {PageNode(attrs[3])}
    \cup {PagesNode(kids, skew, attrs[2]) : kids \in SeqsUpTo({PageNode(attrs[3])}, MaxKids)}

TreesWith(skew, attrs) ==
    {PagesNode(kids, skew, attrs[1]) : kids \in SeqsUpTo(LowerNodes(skew, attrs), MaxKids)}

PageTrees ==
    UNION {TreesWith(skew, attrs) : skew \in {-1, 0, 1}, attrs \in {0, 1} \X {0, 2} \X {0, 3}}

NoPage == [st |-> "none", index |-> <<>>]

NoAttribute == [st |-> "none", v |-> 0]

NoPageTree ==
    /\ tree = PageNode(0)
    /\ page_number = 0 /\ current_node = <<>> /\ child = 0 /\ pages_passed = 0
    /\ page = NoPage /\ page_pc = "none"
    /\ current_page = 0 /\ counter = 0 /\ attribute = NoAttribute

\* ---------------------------------------------------------------- page contents
\* A stream of /Contents: the variant parse_stream built and its decoded bytes.
Whitespace == {0, 9, 10, 12, 13, 32}

ContentBytes == {32, 66}

ContentStreams ==
    {[t |-> t, data |-> d, items |-> <<>>] :
        t \in {"BinaryStream", "ContentStream"}, d \in SeqsUpTo(ContentBytes, MaxData)}

\* /Contents: absent, one stream, or an array of streams.
ContentsEntries ==
    {[t |-> "absent", data |-> <<>>, items |-> <<>>]}
    \cup ContentStreams
    \cup {[t |-> "Array", data |-> <<>>, items |-> a] : a \in SeqsUpTo(ContentStreams, MaxContents)}

NoBytes == [st |-> "none", data |-> <<>>]

NoContents ==
    /\ contents = [t |-> "absent", data |-> <<>>, items |-> <<>>]
    /\ content_bytes = NoBytes

\* ---------------------------------------------------------------- cross-reference table
\* A line after the `xref` line: a subsection header, an entry, `trailer`,
\* text that is none of them, an entry line with a column that is no integer,
\* or a line without a character.  offset is the first column of an entry.
HeaderLine(first, count) ==
    [kind |-> "header", first |-> first, count |-> count, gen |-> 0, mark |-> "none", offset |-> 0]

EntryLine(gen, mark) ==
    [kind |-> "entry", first |-> 0, count |-> 0, gen |-> gen, mark |-> mark, offset |-> 0]

OtherLine(kind) ==
    [kind |-> kind, first |-> 0, count |-> 0, gen |-> 0, mark |-> "none", offset |-> 0]

TableLines ==
    {HeaderLine(0, 1), HeaderLine(2, 1), HeaderLine(2, 2)}
    \cup {EntryLine(0, "n"), EntryLine(1, "n"), EntryLine(0, "f")}
    \cup {OtherLine("trailer"), OtherLine("text"), OtherLine("bad entry"), OtherLine("empty")}

\* Every entry line gives the offset 10 * (its line number).
with_offsets(t) ==
    [i \in DOMAIN t |-> IF t[i].kind = "entry" THEN [t[i] EXCEPT !.offset = 10 * i] ELSE t[i]]

\* Tables of up to n lines.
Tables(n) == {with_offsets(t) : t \in SeqsUpTo(TableLines, n)}

\* The file: its last line, the line before, the line before that, the line at
\* the offset, and the lines that follow that line.
PdfFile(eof, offset, startxref, at, table) ==
    [eof |-> eof, offset |-> offset, startxref |-> startxref, at |-> at, table |-> table]

\* Files whose three last lines lead to a table carry every table; the others
\* are enumerated without lines after the line at the offset.
PdfFiles(n) ==
    {PdfFile(eof, offset, startxref, at, <<>>) :
        eof \in {"%%EOF", "text", "not utf8"},
        offset \in {"integer", "text", "not utf8"},
        startxref \in {"startxref", "text", "not utf8"},
        at \in {"xref", "obj", "short", "text"}}
    \cup {PdfFile("%%EOF", "integer", "startxref", "xref", t) : t \in Tables(n)}

NoPdfOut == [st |-> "none", err |-> "none"]

NoXref ==
    /\ build = "none"
    /\ pdf = PdfFile("none", "none", "none", "none", <<>>)
    /\ xref_pc = "none"
    /\ line_no = 0 /\ obj_number = 0 /\ objects_to_go = 0
    /\ xref_index = {}
    /\ pdf_out = NoPdfOut

\* ---------------------------------------------------------------- reader
NoReaderOut == [op |-> "none", arg |-> <<>>, before |-> 0, st |-> "none", lo |-> 0, hi |-> 0]

NoReader ==
    /\ data = <<>>
    /\ cursor = 0
    /\ debug_build = FALSE
    /\ reader_out = NoReaderOut

\* ---------------------------------------------------------------- parser
\* A PdfObject as the parser builds it: v is the payload as numbers (the
\* value of an integer, the bytes of a string or name, id and generation of a
\* Reference), items the elements of an Array or the entries of a Dictionary.
PdfObject(t, v, items) == [t |-> t, v |-> v, items |-> items]

Null == PdfObject("Null", <<>>, <<>>)

NoParseOut == [st |-> "none", obj |-> Null, err |-> "none"]

NoParse ==
    /\ parse_stack = <<>>
    /\ parse_out = NoParseOut
    /\ referent = "none"
    /\ resolved = FALSE

\* ---------------------------------------------------------------- object streams
\* A dictionary entry that is to be an integer: absent, an object that is no
\* integer, or an integer.
NoEntry == [k |-> "absent", v |-> 0]

NoObjStmOut == [op |-> "none", st |-> "none", err |-> "none", id |-> 0, at |-> 0]

NoObjStm ==
    /\ objstm = [N |-> NoEntry, First |-> NoEntry, words |-> <<>>, utf8 |-> TRUE, len |-> 0]
    /\ object_index = {}
    /\ objstm_pc = "none"
    /\ objstm_out = NoObjStmOut


NoParams == [map |-> TRUE, Predictor |-> NoEntry, Columns |-> NoEntry]

NoFilterOut == [st |-> "none", err |-> "none", data |-> <<>>]

NoFilter ==
    /\ filter_job = [filter |-> "none", data |-> <<>>, params |-> NoParams]
    /\ ascii85_iter = [data_cursor |-> 0, new_data |-> <<>>]
    /\ filter_pc = "none"
    /\ filter_out = NoFilterOut


NoBuildOut == [st |-> "none", err |-> "none"]

NoBuild ==
    /\ objects = <<>>
    /\ new_node = 0
    /\ add_node_stack = <<>>
    /\ tree_len = 0
    /\ build_out = NoBuildOut

\* ---------------------------------------------------------------- Init
Init ==
    /\ resolver \in {"object_cache", "pdf_file"}
    /\ \/ /\ index_map \in {PlainIndex, ShiftedIndex} \cup {MissingIndex(m) : m \in Ids}
          /\ file \in {f \in [Ids -> UNION {PlainBodies(k) : k \in Ids}] :
                          \A k \in Ids : f[k] \in PlainBodies(k)}
       \/ /\ resolver = "object_cache"
          /\ \E p \in Ids :
                /\ index_map = CompressedIndex(p)
                /\ file \in {f \in [Ids -> UNION {ParentBodies(k) \cup BareBodies(k) : k \in Ids}] :
                                \A k \in Ids : f[k] \in (IF k = p THEN ParentBodies(k) ELSE BareBodies(k))}
    /\ cache = [k \in Ids |-> NoObject]
    /\ cache_borrowed = FALSE
    /\ reader_borrowed = FALSE
    /\ alive = TRUE
    /\ stack = <<>>
    /\ ret = NoRet
    /\ call = NoCall
    /\ status = "running"
    /\ parses = [k \in Ids |-> 0]
    /\ next_serial = 1
    /\ NoStream
    /\ NoPageTree
    /\ NoContents
    /\ NoXref
    /\ NoReader
    /\ NoParse
    /\ NoObjStm
    /\ NoFilter
    /\ NoBuild

\* ---------------------------------------------------------------- accessors
\* As apply_actual, but a type mismatch is reported as a ReferenceError.
apply_actual_reference_error(op, o) ==
    CASE op = "int" -> IF o.t = "NumberInt" THEN Ok(NumberInt(o.v), 0)
                       ELSE Err("ReferenceError", 0)
      [] op = "array" -> IF o.t = "Array" THEN Ok([o EXCEPT !.s = 0], 0)
                         ELSE Err("ReferenceError", 0)
      [] op = "object_stream" -> IF o.t = "ObjectStream" THEN Ok([o EXCEPT !.s = 0], 0)
                                 ELSE Err("ReferenceError", 0)
      [] op = "index" -> IF o.t = "Array" THEN Ok(Reference(o.v), 0)
                         ELSE Err("ReferenceError", 0)

\* The Actual arms of try_into_int, try_into_array, try_into_object_stream and
\* try_to_index (of element 0) in impl PdfObjectInterface for PdfObject.
apply_actual(op, o) ==
    CASE op = "int" -> IF o.t = "NumberInt" THEN Ok(NumberInt(o.v), 0)
                       ELSE Err("UnavailableType", 0)
      [] op = "array" -> IF o.t = "Array" THEN Ok([o EXCEPT !.s = 0], 0)
                         ELSE Err("UnavailableType", 0)
      [] op = "object_stream" -> IF o.t = "ObjectStream" THEN Ok([o EXCEPT !.s = 0], 0)
                                 ELSE Err("UnavailableType", 0)
      [] op = "index" -> IF o.t = "Array" THEN Ok(Reference(o.v), 0)
                         ELSE Err("UnavailableType", 0)

\* ---------------------------------------------------------------- frames
RetrieveFrame(id) == [k |-> "retrieve", id |-> id, pc |-> "enter", op |-> "none", obj |-> NoObject]

AccessFrame(op, o) == [k |-> "access", id |-> 0, pc |-> "enter", op |-> op, obj |-> o]

top == stack[Len(stack)]

rest == SubSeq(stack, 1, Len(stack) - 1)

Running(k, pc) == status = "running" /\ stack # <<>> /\ top.k = k /\ top.pc = pc

Idle == status = "running" /\ stack = <<>>

\* The running frame moves to pc and calls f; the native stack overflows when
\* it already holds StackLimit frames.
CallFrom(pc, f) ==
    /\ ret' = NoRet
    /\ IF Len(stack) < StackLimit
       THEN /\ stack' = Append(rest, [top EXCEPT !.pc = pc]) \o <<f>>
            /\ status' = "running"
       ELSE /\ stack' = stack
            /\ status' = "stack_overflow"

\* The running frame returns r to its caller.
Return(r) ==
    /\ stack' = rest
    /\ ret' = r
    /\ status' = status

\* ObjectStreamCache: the ids its header lists, and the bare value parsed at
\* the position of one of them.
object_stream_index(p) == {c \in Ids : index_map[c] = Compressed(p)}

parse_compressed_object_at(id) ==
    LET b == file[id].b
        t == file[id].tgt
    IN CASE b = "int" -> Ok(NumberInt(DataLen), 0)
         [] b = "ref" -> Ok(Reference(t), 0)
         [] b = "array" -> Ok(Array(t), 0)
         [] OTHER -> Err("ParsingError", 0)

\* The cache borrow is scoped to the lookup block and to the insert block.
cache_borrow_after_lookup == FALSE

\* pdf_file.rs passes &mut self.reader.borrow_mut() to parse_object_at: the
\* RefMut lives until the statement ends.  object_cache.rs hands the parser
\* a clone of the reader.
reader_borrow_during_parse == resolver = "pdf_file"

\* The outcome r of the parse of id is in: on success the new Rc is inserted
\* and a clone of the cache entry returned, on failure the error is returned
\* and nothing is inserted.
\* As Complete, but a failure is remembered in the cache.
Complete_caching_failure(id, r) ==
    /\ reader_borrowed' = FALSE
    /\ cache_borrowed' = FALSE
    /\ next_serial' = next_serial + 1
    /\ LET inst == [(IF r.st = "ok" THEN r.obj ELSE Mk("Null", 0)) EXCEPT !.s = next_serial]
       IN /\ cache' = [cache EXCEPT ![id] = inst]
          /\ Return(IF r.st = "ok" THEN Ok(inst, id) ELSE Err(r.err, id))

Complete(id, r) ==
    /\ reader_borrowed' = FALSE
    /\ cache_borrowed' = FALSE
    /\ IF r.st = "ok"
       THEN LET inst == [r.obj EXCEPT !.s = next_serial]
            IN /\ cache' = [cache EXCEPT ![id] = inst]
               /\ next_serial' = next_serial + 1
               /\ Return(Ok(inst, id))
       ELSE /\ cache' = cache
            /\ next_serial' = next_serial
            /\ Return(Err(r.err, id))

\* ---------------------------------------------------------------- caller
CallGuard == \A k \in Ids : parses[k] < MaxParses

CallRetrieve(id) ==
    /\ Idle /\ alive /\ CallGuard
    /\ stack' = <<RetrieveFrame(id)>>
    /\ ret' = NoRet
    /\ call' = [kind |-> "retrieve", op |-> "none", id |-> id]
    /\ UNCHANGED <<document_vars, resolver, file, index_map, cache, cache_borrowed, reader_borrowed,
                   alive, status, parses, next_serial>>

CallAccess(op, id) ==
    /\ Idle /\ CallGuard
    /\ stack' = <<AccessFrame(op, Reference(id))>>
    /\ ret' = NoRet
    /\ call' = [kind |-> "access", op |-> op, id |-> id]
    /\ UNCHANGED <<document_vars, resolver, file, index_map, cache, cache_borrowed, reader_borrowed,
                   alive, status, parses, next_serial>>

\* The Parser, and with it the only strong Rc<ObjectCache>, is dropped: the
\* cache goes with it, the References the caller holds stay.
DropResolver ==
    /\ Idle /\ alive
    /\ alive' = FALSE
    /\ cache' = [k \in Ids |-> NoObject]
    /\ parses' = [k \in Ids |-> 0]
    /\ next_serial' = 1
    /\ ret' = NoRet
    /\ call' = NoCall
    /\ UNCHANGED <<document_vars, resolver, file, index_map, cache_borrowed, reader_borrowed, stack, status>>

\* ---------------------------------------------------------------- retrieve_object_by_ref
\* As Missed, but the result of the lookup is ignored.
Missed_lookup_ignored == TRUE

Missed == cache[top.id] = NoObject

\* borrow_mut on a RefCell that is already mutably borrowed
BorrowConflict ==
    \/ cache_borrowed
    \/ Missed /\ reader_borrow_during_parse /\ reader_borrowed

RetrieveBorrowPanic ==
    /\ Running("retrieve", "enter")
    /\ BorrowConflict
    /\ status' = "panic_borrow"
    /\ UNCHANGED <<document_vars, resolver, file, index_map, cache, cache_borrowed, reader_borrowed,
                   alive, stack, ret, call, parses, next_serial>>

\* As RetrieveCached, but the caller gets a copy of the cached value in a new Rc.
RetrieveCached_copy ==
    /\ Running("retrieve", "enter")
    /\ ~BorrowConflict
    /\ ~Missed
    /\ cache_borrowed' = cache_borrow_after_lookup
    /\ Return(Ok([cache[top.id] EXCEPT !.s = next_serial], top.id))
    /\ next_serial' = next_serial + 1
    /\ UNCHANGED <<document_vars, resolver, file, index_map, cache, reader_borrowed, alive, call, parses>>

RetrieveCached ==
    /\ Running("retrieve", "enter")
    /\ ~BorrowConflict
    /\ ~Missed
    /\ cache_borrowed' = cache_borrow_after_lookup
    /\ Return(Ok(cache[top.id], top.id))
    /\ UNCHANGED <<document_vars, resolver, file, index_map, cache, reader_borrowed, alive, call,
                   parses, next_serial>>

\* As RetrieveUnknown, but the index lookup is unwrapped.
RetrieveUnknown_unwrap ==
    /\ Running("retrieve", "enter")
    /\ ~BorrowConflict
    /\ Missed
    /\ index_map[top.id] = NoLocation
    /\ status' = "panic_unwrap"
    /\ UNCHANGED <<document_vars, resolver, file, index_map, cache, cache_borrowed, reader_borrowed,
                   alive, stack, ret, call, parses, next_serial>>

RetrieveUnknown ==
    /\ Running("retrieve", "enter")
    /\ ~BorrowConflict
    /\ Missed
    /\ index_map[top.id] = NoLocation
    /\ cache_borrowed' = cache_borrow_after_lookup
    /\ Return(Err("ReferenceError", top.id))
    /\ UNCHANGED <<document_vars, resolver, file, index_map, cache, reader_borrowed, alive, call,
                   parses, next_serial>>

\* parse_object_at over the indirect object at the indexed offset, up to its
\* end or to the resolution of an indirect /Length.
RetrieveParse ==
    /\ Running("retrieve", "enter")
    /\ ~BorrowConflict
    /\ Missed
    /\ index_map[top.id].loc = "Uncompressed"
    /\ parses' = [parses EXCEPT ![top.id] = @ + 1]
    /\ LET ix == index_map[top.id].at
           tok == object_buffer_at(ix)
           le == stream_length_entry(tok.buf)
       IN IF tok.kw = "endobj"
          THEN Complete(top.id, make_object_from_object_buffer(tok.buf))
          ELSE IF le.st = "err"
          THEN Complete(top.id, le)
          ELSE IF ~IsReference(le.obj)
          THEN Complete(top.id,
                        IF apply_actual("int", le.obj).st = "err"
                        THEN Err("ParsingError", 0)
                        ELSE finish_stream_object(ix, tok.buf, le.obj.v))
          ELSE /\ CallFrom("await_length", AccessFrame("int", le.obj))
               /\ reader_borrowed' = reader_borrow_during_parse
               /\ cache_borrowed' = cache_borrow_after_lookup
               /\ UNCHANGED <<cache, next_serial>>
    /\ UNCHANGED <<document_vars, resolver, file, index_map, alive, call>>

\* make_stream_object goes on once /Length has been resolved
RetrieveResumeStream ==
    /\ Running("retrieve", "await_length")
    /\ ret.st # "none"
    /\ LET ix == index_map[top.id].at
           tok == object_buffer_at(ix)
       IN Complete(top.id,
                   IF ret.st = "err" THEN Err("ParsingError", 0)
                   ELSE finish_stream_object(ix, tok.buf, ret.obj.v))
    /\ UNCHANGED <<document_vars, resolver, file, index_map, alive, call, parses>>

RetrieveCompressed ==
    /\ Running("retrieve", "enter")
    /\ ~BorrowConflict
    /\ Missed
    /\ index_map[top.id].loc = "Compressed"
    /\ cache_borrowed' = cache_borrow_after_lookup
    /\ CallFrom("await_parent", RetrieveFrame(index_map[top.id].at))
    /\ UNCHANGED <<document_vars, resolver, file, index_map, cache, reader_borrowed, alive, call,
                   parses, next_serial>>

\* ObjectStreamCache::retrieve_object_by_ref on the sub-resolver r delivers
SubResolve(r) ==
    IF r.st = "err"
    THEN /\ Complete(top.id, r)
         /\ parses' = parses
    ELSE IF top.id \notin object_stream_index(r.obj.v)
    THEN /\ Complete(top.id, Err("ReferenceError", 0))
         /\ parses' = parses
    ELSE /\ Complete(top.id, parse_compressed_object_at(top.id))
         /\ parses' = [parses EXCEPT ![top.id] = @ + 1]

\* The parent is back: parent.try_into_object_stream()?, resolved through a
\* nested accessor call when the cached parent is a Reference, and then the
\* sub-resolver.
RetrieveParentReturned ==
    /\ \/ Running("retrieve", "await_parent")
       \/ Running("retrieve", "await_object_stream")
    /\ ret.st # "none"
    /\ IF ret.st = "err"
       THEN Complete(top.id, ret) /\ parses' = parses
       ELSE IF top.pc = "await_object_stream"
       THEN SubResolve(ret)
       ELSE IF IsReference(ret.obj)
       THEN /\ CallFrom("await_object_stream", AccessFrame("object_stream", ret.obj))
            /\ UNCHANGED <<cache, cache_borrowed, reader_borrowed, parses, next_serial>>
       ELSE SubResolve(apply_actual("object_stream", ret.obj))
    /\ UNCHANGED <<document_vars, resolver, file, index_map, alive, call>>

\* ---------------------------------------------------------------- accessor on a PdfObject
\* PdfObjectReference::get: upgrade().expect(..)
AccessUpgradePanic ==
    /\ Running("access", "enter")
    /\ IsReference(top.obj)
    /\ ~alive
    /\ status' = "panic_upgrade"
    /\ UNCHANGED <<document_vars, resolver, file, index_map, cache, cache_borrowed, reader_borrowed,
                   alive, stack, ret, call, parses, next_serial>>

\* PdfObjectReference::get: usable_ref.retrieve_object_by_ref(self.id)
AccessGet ==
    /\ Running("access", "enter")
    /\ IsReference(top.obj)
    /\ alive
    /\ CallFrom("await_get", RetrieveFrame(top.obj.v))
    /\ UNCHANGED <<document_vars, resolver, file, index_map, cache, cache_borrowed, reader_borrowed,
                   alive, call, parses, next_serial>>

\* link.get()?.try_into_x(): the error leaves through `?`, an Actual value is
\* converted, a Reference value is converted by a nested accessor call
\* As AccessResolved, but the Reference arm falls back to the trait's default
\* body once the target is resolved.
AccessResolved_default_body ==
    /\ Running("access", "await_get")
    /\ ret.st # "none"
    /\ Return(Err(IF ret.st = "err" THEN ret.err ELSE "UnavailableType", 0))
    /\ UNCHANGED <<document_vars, resolver, file, index_map, cache, cache_borrowed, reader_borrowed,
                   alive, call, parses, next_serial>>

AccessResolved ==
    /\ Running("access", "await_get")
    /\ ret.st # "none"
    /\ IF ret.st = "err"
       THEN Return(Err(ret.err, 0))
       ELSE IF IsReference(ret.obj)
       THEN CallFrom("await_inner", AccessFrame(top.op, ret.obj))
       ELSE Return(apply_actual(top.op, ret.obj))
    /\ UNCHANGED <<document_vars, resolver, file, index_map, cache, cache_borrowed, reader_borrowed,
                   alive, call, parses, next_serial>>

AccessInnerReturned ==
    /\ Running("access", "await_inner")
    /\ ret.st # "none"
    /\ Return(ret)
    /\ UNCHANGED <<document_vars, resolver, file, index_map, cache, cache_borrowed, reader_borrowed,
                   alive, call, parses, next_serial>>

Next ==
    \/ \E id \in Ids : CallRetrieve(id)
    \/ \E op \in Ops, id \in Ids : CallAccess(op, id)
    \/ DropResolver
    \/ RetrieveBorrowPanic
    \/ RetrieveCached
    \/ RetrieveUnknown
    \/ RetrieveParse
    \/ RetrieveResumeStream
    \/ RetrieveCompressed
    \/ RetrieveParentReturned
    \/ AccessUpgradePanic
    \/ AccessGet
    \/ AccessResolved
    \/ AccessInnerReturned

Spec == Init /\ [][Next]_vars

\* ---------------------------------------------------------------- stream objects
\* No resolver takes part.
NoResolver ==
    /\ resolver = "none"
    /\ file = <<>> /\ index_map = <<>> /\ cache = <<>> /\ parses = <<>>
    /\ cache_borrowed = FALSE /\ reader_borrowed = FALSE /\ alive = FALSE
    /\ stack = <<>> /\ ret = NoRet /\ call = NoCall
    /\ status = "running" /\ next_serial = 1

\* What the reader can hold after the body of a stream: a line end and
\* `endstream`, `endstream` without a line end, two line ends and `endstream`,
\* a line end and other bytes, or other bytes.
Continuations == {"eol endstream", "endstream", "eol eol endstream", "eol other", "other"}

\* The parser has read `N G obj <<dict>> stream` and the line end; the reader
\* holds body_len more bytes. Where that is more than /Length, the bytes
\* after the first /Length are one of the continuations.
InitStream ==
    /\ NoResolver
    /\ NoPageTree
    /\ NoContents
    /\ NoXref
    /\ NoReader
    /\ NoParse
    /\ NoObjStm
    /\ NoFilter
    /\ NoBuild
    /\ stream_dict \in StreamDicts
    /\ body_len \in 0..MaxBody
    /\ after_body \in (IF /\ stream_dict.Length # NoObject
                          /\ is_int(stream_dict.Length)
                          /\ stream_dict.Length.v >= 0
                          /\ stream_dict.Length.v < body_len
                       THEN Continuations ELSE {"end of data"})
    /\ stream_pc = "make"
    /\ stream_out = NoStreamOut

\* PdfFileReader::read_n: up to n bytes from the cursor on.
read_n(n) == IF n > body_len THEN body_len ELSE n

\* As MakeStreamObject, but what read_n returned is not compared with /Length.
MakeStreamObject_unchecked_read ==
    /\ stream_pc = "make"
    /\ LET length == stream_dict.Length
       IN IF length = NoObject \/ ~is_int(length)
          THEN stream_pc' = "done" /\ stream_out' = StreamErr("ParsingError")
          ELSE /\ stream_pc' = "parse"
               /\ stream_out' = [NoStreamOut EXCEPT
                                    !.raw = IF length.v < 0 THEN body_len ELSE read_n(length.v)]
    /\ UNCHANGED <<other_than_stream, stream_dict, body_len, after_body>>

\* make_stream_object up to the call of the decoder: /Length is looked up and
\* converted, `as usize` turns a negative i32 into a count no buffer holds,
\* and the bytes read_n returned are counted.
MakeStreamObject ==
    /\ stream_pc = "make"
    /\ LET length == stream_dict.Length
       IN IF length = NoObject \/ ~is_int(length)
          THEN stream_pc' = "done" /\ stream_out' = StreamErr("ParsingError")
          ELSE LET binary_data == IF length.v < 0 THEN body_len ELSE read_n(length.v)
               IN IF length.v < 0 \/ binary_data # length.v
                  THEN stream_pc' = "done" /\ stream_out' = StreamErr("ParsingError")
                  ELSE stream_pc' = "parse"
                       /\ stream_out' = [NoStreamOut EXCEPT !.raw = binary_data]
    /\ UNCHANGED <<other_than_stream, stream_dict, body_len, after_body>>

\* decode_stream, first pass: entry i and the entries after it become
\* Filters; the parameters of entry i are indexed before its name is looked up.
RECURSIVE filter_array(_, _, _)
filter_array(names, params, i) ==
    IF i > Len(names) THEN [st |-> "ok", err |-> "none"]
    ELSE IF params.form = "array" /\ i > params.len
    THEN [st |-> "panic", err |-> "index out of bounds"]
    ELSE IF names[i] \notin KnownFilters THEN [st |-> "err", err |-> "FilterError"]
    ELSE filter_array(names, params, i + 1)

\* decode_stream, second pass: the fold of Filter::apply from filter i on.
RECURSIVE apply(_, _, _)
apply(names, i, applied) ==
    IF i > Len(names) THEN [st |-> "ok", err |-> "none", applied |-> applied]
    ELSE IF names[i] \in AppliedFilters THEN apply(names, i + 1, Append(applied, names[i]))
    ELSE [st |-> "err", err |-> "FilterError", applied |-> applied]

decode_stream(dict) ==
    IF dict.Filter.form = "int"
    THEN [st |-> "err", err |-> "FilterError", applied |-> <<>>]
    ELSE LET made == filter_array(dict.Filter.names, dict.DecodeParms, 1)
         IN IF made.st # "ok"
            THEN [st |-> made.st, err |-> made.err, applied |-> <<>>]
            ELSE apply(dict.Filter.names, 1, <<>>)

\* parse_stream: /Length is checked against the bytes it was handed, the
\* stream is classified, and all types but Image are decoded.  The dictionary
\* of an object stream is taken to hold a valid /N, /First and header.
ParseStream ==
    /\ stream_pc = "parse"
    /\ stream_pc' = "done"
    /\ LET length == stream_dict.Length
           stream_type == determine_stream_type(stream_dict.Type, stream_dict.Subtype)
           decoded == decode_stream(stream_dict)
       IN IF length = NoObject THEN stream_out' = StreamErr("ParsingError")
          ELSE IF ~is_int(length) THEN stream_out' = StreamErr("UnavailableType")
          ELSE IF length.v < 0 \/ stream_out.raw # length.v
          THEN stream_out' = StreamPanic("assert_eq")
          ELSE IF stream_type = "Image"
          THEN stream_out' = [stream_out EXCEPT !.st = "ok", !.kind = "BinaryStream"]
          ELSE IF stream_variant(stream_type) = "none"
          THEN stream_out' = [stream_out EXCEPT !.st = "err", !.err = "TestingError"]
          ELSE IF decoded.st # "ok"
          THEN stream_out' = [stream_out EXCEPT !.st = decoded.st, !.err = decoded.err,
                                                !.applied = decoded.applied]
          ELSE stream_out' = [stream_out EXCEPT !.st = "ok", !.applied = decoded.applied,
                                                !.kind = stream_variant(stream_type)]
    /\ UNCHANGED <<other_than_stream, stream_dict, body_len, after_body>>

NextStream ==
    \/ MakeStreamObject
    \/ ParseStream

StreamSpec == InitStream /\ [][NextStream]_vars

\* ---------------------------------------------------------------- pages
\* A PdfDoc whose page tree was built from the /Pages root; nothing was asked
\* of it yet.
InitPages ==
    /\ NoResolver
    /\ NoStream
    /\ NoContents
    /\ NoXref
    /\ NoReader
    /\ NoParse
    /\ NoObjStm
    /\ NoFilter
    /\ NoBuild
    /\ tree \in PageTrees
    /\ page_number = 0 /\ current_node = <<>> /\ child = 0 /\ pages_passed = 0
    /\ page = NoPage /\ page_pc = "idle"
    /\ current_page = 0 /\ counter = 0 /\ attribute = NoAttribute

\* vec_tree: the node an index names, its children, its parent.
RECURSIVE node_at(_, _)
node_at(node, index) ==
    IF index = <<>> THEN node ELSE node_at(node.kids[Head(index)], Tail(index))

children(index) == node_at(tree, index).kids

parent(index) == SubSeq(index, 1, Len(index) - 1)

\* PageTree::page_count: the root's /Count.
page_count == tree.count

\* get_page returns r: to its caller, or to the `for page in doc.pages()`
\* loop, which counts a page or stops at None.
ReturnPage(r, iterating) ==
    /\ page' = r
    /\ IF ~iterating THEN page_pc' = "returned" /\ counter' = counter
       ELSE IF r.st = "Some" THEN page_pc' = "returned" /\ counter' = counter + 1
       ELSE page_pc' = "finished" /\ counter' = counter

\* get_page up to its loop: the range check against page_count, then the
\* walk starts at the root.
EnterGetPage(n, iterating) ==
    /\ page_number' = n
    /\ current_node' = <<>>
    /\ pages_passed' = 0
    /\ attribute' = NoAttribute
    /\ IF n > page_count
       THEN child' = 0 /\ ReturnPage([st |-> "None", index |-> <<>>], iterating)
       ELSE child' = 1 /\ page' = NoPage /\ page_pc' = "for" /\ counter' = counter

\* A caller asks for page n.
GetPage(n) ==
    /\ page_pc = "idle"
    /\ EnterGetPage(n, FALSE)
    /\ UNCHANGED <<other_than_pages, tree, current_page>>

\* Pages::next.
PagesNext ==
    /\ \/ page_pc = "idle"
       \/ page_pc = "returned" /\ current_page > 0
    /\ current_page' = current_page + 1
    /\ EnterGetPage(current_page + 1, TRUE)
    /\ UNCHANGED <<other_than_pages, tree>>

\* As GetPageChild, but a subtree that is skipped leaves pages_passed alone.
GetPageChild_skip_uncounted ==
    /\ page_pc = "for"
    /\ child <= Len(children(current_node))
    /\ LET this_child == children(current_node)[child]
       IN IF this_child.type = "Page"
          THEN IF page_number > 0 /\ pages_passed = page_number - 1
               THEN /\ ReturnPage([st |-> "Some", index |-> Append(current_node, child)],
                                  current_page > 0)
                    /\ UNCHANGED <<current_node, child, pages_passed>>
               ELSE /\ pages_passed' = pages_passed + 1
                    /\ child' = child + 1
                    /\ UNCHANGED <<current_node, page, page_pc, counter>>
          ELSE IF pages_passed + this_child.count >= page_number
               THEN /\ current_node' = Append(current_node, child)
                    /\ child' = 1
                    /\ UNCHANGED <<pages_passed, page, page_pc, counter>>
               ELSE /\ child' = child + 1
                    /\ UNCHANGED <<pages_passed, current_node, page, page_pc, counter>>
    /\ UNCHANGED <<other_than_pages, tree, page_number, current_page, attribute>>

\* One round of `for child in self.tree.children(current_node)`.  With
\* page_number = 0 the subtraction page_number - 1 underflows: a build with
\* overflow checks panics, one without wraps to usize::MAX and the comparison
\* fails.
GetPageChild ==
    /\ page_pc = "for"
    /\ child <= Len(children(current_node))
    /\ LET this_child == children(current_node)[child]
       IN IF this_child.type = "Page"
          THEN IF page_number > 0 /\ pages_passed = page_number - 1
               THEN /\ ReturnPage([st |-> "Some", index |-> Append(current_node, child)],
                                  current_page > 0)
                    /\ UNCHANGED <<current_node, child, pages_passed>>
               ELSE \/ /\ page_number = 0
                       /\ ReturnPage([st |-> "panic", index |-> <<>>], current_page > 0)
                       /\ UNCHANGED <<current_node, child, pages_passed>>
                    \/ /\ pages_passed' = pages_passed + 1
                       /\ child' = child + 1
                       /\ UNCHANGED <<current_node, page, page_pc, counter>>
          ELSE IF pages_passed + this_child.count >= page_number
               THEN /\ current_node' = Append(current_node, child)
                    /\ child' = 1
                    /\ UNCHANGED <<pages_passed, page, page_pc, counter>>
               ELSE /\ pages_passed' = pages_passed + this_child.count
                    /\ child' = child + 1
                    /\ UNCHANGED <<current_node, page, page_pc, counter>>
    /\ UNCHANGED <<other_than_pages, tree, page_number, current_page, attribute>>

\* The for loop ran out of children without descending: starting_node ==
\* current_node, and get_page returns None.
GetPageExhausted ==
    /\ page_pc = "for"
    /\ child > Len(children(current_node))
    /\ ReturnPage([st |-> "None", index |-> <<>>], current_page > 0)
    /\ UNCHANGED <<other_than_pages, tree, page_number, current_node, child, pages_passed,
                   current_page, attribute>>

\* As get_attribute, but the walk starts at the parent of the page.
RECURSIVE get_attribute_from_parent(_)
get_attribute_from_parent(index) ==
    IF index = <<>> THEN [st |-> "None", v |-> 0]
    ELSE IF node_at(tree, parent(index)).attr # 0
    THEN [st |-> "Some", v |-> node_at(tree, parent(index)).attr]
    ELSE get_attribute_from_parent(parent(index))

\* Page::get_attribute: the loop over the node and its ancestors.
RECURSIVE get_attribute(_)
get_attribute(index) ==
    IF node_at(tree, index).attr # 0
    THEN [st |-> "Some", v |-> node_at(tree, index).attr]
    ELSE IF index = <<>> THEN [st |-> "None", v |-> 0]
    ELSE get_attribute(parent(index))

\* The caller asks the page it got for the attribute.
GetAttribute ==
    /\ page_pc = "returned"
    /\ page.st = "Some"
    /\ attribute = NoAttribute
    /\ attribute' = get_attribute(page.index)
    /\ UNCHANGED <<other_than_pages, tree, page_number, current_node, child, pages_passed,
                   page, page_pc, current_page, counter>>

NextPages ==
    \/ \E n \in 0..(page_count + 1) : GetPage(n)
    \/ PagesNext
    \/ GetPageChild
    \/ GetPageExhausted
    \/ GetAttribute

PageSpec == InitPages /\ [][NextPages]_vars

\* ---------------------------------------------------------------- contents
\* A Page whose node was built by add_node; nothing was asked of it yet.
InitContents ==
    /\ NoResolver
    /\ NoStream
    /\ NoPageTree
    /\ NoXref
    /\ NoReader
    /\ NoParse
    /\ NoObjStm
    /\ NoFilter
    /\ NoBuild
    /\ contents \in ContentsEntries
    /\ content_bytes = NoBytes

\* PdfObject::get_data_type
get_data_type(o) ==
    CASE o.t = "Array" -> "VecObjects"
      [] o.t = "BinaryStream" -> "VecU8"
      [] o.t = "ContentStream" -> "String"

\* PdfObject::try_into_binary
try_into_binary(o) ==
    IF o.t = "BinaryStream"
    THEN [st |-> "ok", data |-> o.data]
    ELSE [st |-> "err", data |-> <<>>]

\* The loop over the array: output_data after the streams from position i on.
RECURSIVE extend(_, _, _)
extend(items, i, output_data) ==
    IF i > Len(items)
    THEN [st |-> "some", data |-> output_data]
    ELSE IF try_into_binary(items[i]).st = "err"
         THEN [st |-> "panic", data |-> <<>>]
         ELSE extend(items, i + 1, output_data \o try_into_binary(items[i]).data)

\* Page::contents_as_binary
contents_as_binary(contents_ref) ==
    IF contents_ref.t = "absent"
    THEN [st |-> "panic", data |-> <<>>]
    ELSE CASE get_data_type(contents_ref) = "VecObjects" -> extend(contents_ref.items, 1, <<>>)
           [] get_data_type(contents_ref) = "VecU8" ->
                [st |-> "some", data |-> try_into_binary(contents_ref).data]
           [] OTHER -> [st |-> "None", data |-> <<>>]

ContentsAsBinary ==
    /\ contents \in ContentsEntries
    /\ content_bytes = NoBytes
    /\ content_bytes' = contents_as_binary(contents)
    /\ UNCHANGED <<other_than_contents, contents>>

NextContents == ContentsAsBinary

ContentsSpec == InitContents /\ [][NextContents]_vars

\* ---------------------------------------------------------------- create_pdf_from_file
\* A file was read into the reader; create_pdf_from_file is about to look for
\* the cross-reference data.
InitXref ==
    /\ NoResolver
    /\ NoStream
    /\ NoPageTree
    /\ NoContents
    /\ NoReader
    /\ NoParse
    /\ NoObjStm
    /\ NoFilter
    /\ NoBuild
    /\ build \in {"debug", "release"}
    /\ pdf \in PdfFiles(MaxLines)
    /\ xref_pc = "find"
    /\ line_no = 0 /\ obj_number = 0 /\ objects_to_go = 0
    /\ xref_index = {}
    /\ pdf_out = NoPdfOut

\* The call ends: with an index, with an Err value, or in a panic.
ReturnPdf(st, err) ==
    /\ xref_pc' = "done"
    /\ pdf_out' = [st |-> st, err |-> err]

\* Parser::find_xref_start_and_type
FindXrefStartAndType ==
    /\ xref_pc = "find"
    /\ IF pdf.eof # "%%EOF"
       THEN ReturnPdf("panic", IF pdf.eof = "not utf8" THEN "expect" ELSE "assert_eq")
       ELSE IF pdf.offset # "integer"
       THEN ReturnPdf("err", "ParsingError")
       ELSE IF pdf.startxref # "startxref"
       THEN ReturnPdf("panic", IF pdf.startxref = "not utf8" THEN "expect" ELSE "assert_eq")
       ELSE CASE pdf.at = "xref" -> xref_pc' = "table" /\ UNCHANGED pdf_out
              [] pdf.at = "obj" -> xref_pc' = "stream" /\ UNCHANGED pdf_out
              [] OTHER -> ReturnPdf("err", "ParsingError")
    /\ UNCHANGED <<other_than_xref, build, pdf, line_no, obj_number, objects_to_go, xref_index>>

\* Parser::process_xref_stream
ProcessXrefStream ==
    /\ xref_pc = "stream"
    /\ ReturnPdf("err", "ParsingError")
    /\ UNCHANGED <<other_than_xref, build, pdf, line_no, obj_number, objects_to_go, xref_index>>

\* process_standard_xref_table up to its loop: the seek, and the
\* debug_assert_eq! whose argument reads the `xref` line when it is compiled in.
ProcessStandardXrefTable ==
    /\ xref_pc = "table"
    /\ line_no' = IF build = "debug" THEN 1 ELSE 0
    /\ xref_index' = {}
    /\ obj_number' = 0
    /\ objects_to_go' = 0
    /\ xref_pc' = "loop"
    /\ UNCHANGED <<other_than_xref, build, pdf, pdf_out>>

\* The line the reader is on: the `xref` line, a line of the table, and after
\* the table the `startxref` line of the file's end.
read_current_line(n) ==
    IF n = 0 THEN OtherLine("xref")
    ELSE IF n <= Len(pdf.table) THEN pdf.table[n]
    ELSE OtherLine("startxref")

\* line.chars().last(): None for a line without a character.
last_char(line) ==
    CASE line.kind = "entry" -> line.mark
      [] line.kind = "bad entry" -> "n"
      [] line.kind = "empty" -> "None"
      [] line.kind \in {"xref", "startxref"} -> "f"
      [] line.kind = "trailer" -> "r"
      [] line.kind = "header" -> "digit"
      [] OTHER -> "other"

\* index_map.insert
insert(index, id, gen, offset) ==
    {e \in index : ~(e.id = id /\ e.gen = gen)} \cup {[id |-> id, gen |-> gen, offset |-> offset]}

\* One turn of the loop of process_standard_xref_table.
XrefLine ==
    /\ xref_pc = "loop"
    /\ LET line == read_current_line(line_no) IN
        /\ line_no' = line_no + 1
        /\ IF last_char(line) = "None"
           THEN ReturnPdf("panic", "unwrap") /\ UNCHANGED <<obj_number, objects_to_go, xref_index>>
           ELSE IF last_char(line) \notin {"n", "f"}
           THEN IF line.kind = "trailer"
                THEN ReturnPdf("ok", "none") /\ UNCHANGED <<obj_number, objects_to_go, xref_index>>
                ELSE IF line.kind # "header" \/ objects_to_go # 0
                THEN /\ ReturnPdf("err", "ParsingError")
                     /\ UNCHANGED <<obj_number, objects_to_go, xref_index>>
                ELSE /\ obj_number' = line.first
                     /\ objects_to_go' = line.count
                     /\ UNCHANGED <<xref_pc, pdf_out, xref_index>>
           ELSE IF objects_to_go = 0
                THEN ReturnPdf("ok", "none") /\ UNCHANGED <<obj_number, objects_to_go, xref_index>>
                ELSE IF line.kind # "entry"
                THEN /\ ReturnPdf("err", "ParsingError")
                     /\ UNCHANGED <<obj_number, objects_to_go, xref_index>>
                ELSE /\ xref_index' = IF line.mark = "n"
                                      THEN insert(xref_index, obj_number, line.gen, line.offset)
                                      ELSE xref_index
                     /\ obj_number' = obj_number + 1
                     /\ objects_to_go' = objects_to_go - 1
                     /\ UNCHANGED <<xref_pc, pdf_out>>
    /\ UNCHANGED <<other_than_xref, build, pdf>>

NextXref ==
    \/ FindXrefStartAndType
    \/ ProcessXrefStream
    \/ ProcessStandardXrefTable
    \/ XrefLine

XrefSpec == InitXref /\ [][NextXref]_vars

\* ---------------------------------------------------------------- PdfFileReader
\* Bytes of the buffer: a letter, a space, LF and CR.
ReaderBytes == {97, 32, 10, 13}

PDF_EOL_MARKERS == {10, 13}

PDF_DELIMITERS == {32, 10, 13, 92, 9, 60, 62, 40, 41, 91, 93, 123, 125, 47, 37, 0, 12}

\* Sets passed to get_in_charset and get_until_charset.
Charsets == {PDF_EOL_MARKERS, {97}}

\* Arguments of get_n, peek_ahead_n and peek_behind_n: a usize.
Counts == [k : {"value"}, v : 0..(MaxBuf + 1)] \cup {[k |-> "usize::MAX", v |-> 0]}

\* Arguments of seek: SeekFrom::Start takes a u64, Current and End an i64.
SeekOffsets(from) ==
    IF from = "Start"
    THEN [k : {"value"}, v : 0..(MaxBuf + 1)] \cup {[k |-> "u64::MAX", v |-> 0]}
    ELSE [k : {"value"}, v : (0 - MaxBuf - 1)..(MaxBuf + 1)]
         \cup {[k |-> "i64::MAX", v |-> 0], [k |-> "i64::MIN", v |-> 0]}

\* A reader over any buffer, its cursor at the start as new() leaves it.
InitReader ==
    /\ NoResolver
    /\ NoStream
    /\ NoPageTree
    /\ NoContents
    /\ NoXref
    /\ NoParse
    /\ NoObjStm
    /\ NoFilter
    /\ NoBuild
    /\ data \in SeqsUpTo(ReaderBytes, MaxBuf)
    /\ cursor = 0
    /\ debug_build \in BOOLEAN
    /\ reader_out = NoReaderOut

len == Len(data)

\* data[index], indices counted from 0; only asked for 0 <= index < len.
byte_at(index) == data[index + 1]

eol_at(index) == byte_at(index) \in PDF_EOL_MARKERS

\* What an operation did: the slice lo..hi it returned and the cursor it left,
\* or a panic.
Returned(c, lo, hi) == [st |-> "ok", c |-> c, lo |-> lo, hi |-> hi]

Panicked == [st |-> "panic", c |-> 0, lo |-> 0, hi |-> 0]

\* &self[lo..hi], with the cursor at c: panics unless lo <= hi <= len.
slice(c, lo, hi) == IF lo > hi \/ hi > len THEN Panicked ELSE Returned(c, lo, hi)

\* PdfFileReader::bound_n
bound_n(n) == IF n < 0 THEN 0 ELSE IF n > len THEN len ELSE n

\* The first index from i on that is len or holds a byte of S.
RECURSIVE first_in(_, _)
first_in(S, i) == IF i < len /\ byte_at(i) \notin S THEN first_in(S, i + 1) ELSE i

\* The first index from i on that is len or holds a byte not in S.
RECURSIVE first_not_in(_, _)
first_not_in(S, i) == IF i < len /\ byte_at(i) \in S THEN first_not_in(S, i + 1) ELSE i

\* The loop that walks start_index back: to the index after the nearest byte
\* of S at or before i, or to 0.
RECURSIVE start_after(_, _)
start_after(S, i) ==
    IF byte_at(i) \in S THEN i + 1 ELSE IF i = 0 THEN 0 ELSE start_after(S, i - 1)

\* PdfFileReader::get_line_bounds_around_index.  eol_at(index) indexes data,
\* so an index of len panics; `end_index -= 2` below 0 panics where overflow
\* is checked, and elsewhere wraps to an index that eol_at panics on.
get_line_bounds_around_index(index) ==
    IF index < 0 \/ index >= len THEN [st |-> "panic", s |-> 0, e |-> 0]
    ELSE LET end_index == IF ~eol_at(index) THEN index
                          ELSE IF byte_at(index) = 10 /\ index > 0 /\ byte_at(index - 1) = 13
                          THEN index - 2
                          ELSE index - 1
         IN IF eol_at(index) /\ index = 0 THEN [st |-> "ok", s |-> 0, e |-> 0]
            ELSE IF end_index < 0 THEN [st |-> "panic", s |-> 0, e |-> 0]
            ELSE IF eol_at(index) /\ eol_at(end_index)
            THEN [st |-> "ok", s |-> end_index + 1, e |-> end_index + 1]
            ELSE [st |-> "ok", s |-> start_after(PDF_EOL_MARKERS, end_index),
                  e |-> first_in(PDF_EOL_MARKERS, end_index)]

\* PdfFileReader::get_index_after_line_break; -1: eol_at(index) panicked.
get_index_after_line_break(index) ==
    IF index >= len THEN 0 - 1
    ELSE IF ~eol_at(index) THEN index
    ELSE IF byte_at(index) = 13 /\ index + 1 < len /\ byte_at(index + 1) = 10 THEN index + 2
    ELSE index + 1

\* cursor + n on usize, cast to i64: a value, or "overflow".
cursor_plus(n) ==
    IF n.k = "value" THEN [k |-> "value", v |-> cursor + n.v]
    ELSE IF cursor = 0 THEN [k |-> "value", v |-> 0 - 1]
    ELSE [k |-> "overflow", v |-> cursor - 1]

\* base + offset on i64, base being a position: a value, "negative", "huge",
\* or "overflow".
plus_i64(base, offset) ==
    CASE offset.k = "value" -> [k |-> "value", v |-> base + offset.v]
      [] offset.k = "i64::MIN" -> [k |-> "negative", v |-> 0]
      [] offset.k = "i64::MAX" -> IF base = 0 THEN [k |-> "huge", v |-> 0]
                                  ELSE [k |-> "overflow", v |-> 0]

\* impl Seek for PdfFileReader
seek(from, offset) ==
    LET new_pos == CASE from = "Start" -> IF offset.k = "value" THEN offset
                                          ELSE [k |-> "negative", v |-> 0]
                     [] from = "Current" -> plus_i64(cursor, offset)
                     [] from = "End" -> plus_i64(len, offset)
    IN CASE new_pos.k = "overflow" -> IF debug_build THEN Panicked ELSE Returned(0, 0, 0)
         [] new_pos.k = "negative" -> Returned(0, 0, 0)
         [] new_pos.k = "huge" -> Returned(len, 0, 0)
         [] new_pos.k = "value" ->
              Returned(IF new_pos.v <= 0 THEN 0 ELSE IF new_pos.v > len THEN len ELSE new_pos.v,
                       0, 0)

get_n(n) ==
    IF cursor >= len THEN Returned(cursor, 0, 0)
    ELSE IF cursor_plus(n).k = "overflow" /\ debug_build THEN Panicked
    ELSE slice(bound_n(cursor_plus(n).v), cursor, bound_n(cursor_plus(n).v))

peek_ahead_n(n) ==
    IF cursor >= len THEN Returned(cursor, 0, 0)
    ELSE IF cursor_plus(n).k = "overflow" /\ debug_build THEN Panicked
    ELSE slice(cursor, cursor, bound_n(cursor_plus(n).v))

\* `n as i64` is -1 for usize::MAX.
peek_behind_n(n) ==
    IF cursor <= 0 THEN Returned(cursor, 0, 0)
    ELSE slice(cursor, bound_n(IF n.k = "value" THEN cursor - n.v ELSE cursor + 1), cursor)

get_until_delimiter ==
    slice(first_in(PDF_DELIMITERS, cursor), cursor, first_in(PDF_DELIMITERS, cursor))

get_current_word ==
    IF cursor >= len \/ byte_at(cursor) \in PDF_DELIMITERS THEN Returned(cursor, 0, 0)
    ELSE slice(first_in(PDF_DELIMITERS, cursor), start_after(PDF_DELIMITERS, cursor),
               first_in(PDF_DELIMITERS, cursor))

get_next_word ==
    IF cursor >= len THEN Returned(cursor, 0, 0)
    ELSE IF byte_at(cursor) \notin PDF_DELIMITERS THEN get_current_word
    ELSE LET start_index == first_not_in(PDF_DELIMITERS, cursor)
         IN IF start_index = len THEN Returned(len, 0, 0)
            ELSE slice(first_in(PDF_DELIMITERS, start_index), start_index,
                       first_in(PDF_DELIMITERS, start_index))

get_in_charset(valid_set) ==
    slice(first_not_in(valid_set, cursor), cursor, first_not_in(valid_set, cursor))

get_until_charset(delimiter_set) ==
    slice(first_in(delimiter_set, cursor), cursor, first_in(delimiter_set, cursor))

\* The cursor get_current_line and get_rest_of_line leave after a line that
\* ends at end_index.
cursor_after_line(end_index) ==
    IF end_index = len THEN end_index ELSE get_index_after_line_break(end_index)

get_current_line ==
    IF cursor >= len THEN Returned(cursor, 0, 0)
    ELSE LET bounds == get_line_bounds_around_index(cursor)
         IN IF bounds.st = "panic" THEN Panicked
            ELSE slice(cursor_after_line(bounds.e), bounds.s, bounds.e)

get_rest_of_line ==
    IF cursor >= len THEN Returned(cursor, 0, 0)
    ELSE LET bounds == get_line_bounds_around_index(cursor)
         IN IF bounds.st = "panic" THEN Panicked
            ELSE slice(cursor_after_line(bounds.e),
                       IF cursor > bounds.e THEN bounds.e ELSE cursor, bounds.e)

\* `end_index -= 1` on an empty buffer is 0 - 1: a panic where overflow is
\* checked, and elsewhere an index that eol_at panics on.
peek_preceding_part_of_line ==
    LET end_index == IF cursor >= len THEN cursor - 1 ELSE cursor
        bounds == get_line_bounds_around_index(end_index)
        line_end == IF end_index > bounds.e THEN bounds.e ELSE end_index
    IN IF bounds.st = "panic" THEN Panicked
       ELSE slice(cursor, bounds.s,
                  IF cursor = len /\ ~eol_at(cursor - 1) THEN line_end + 1 ELSE line_end)

peek_preceding_line ==
    IF cursor < 2 THEN Returned(cursor, 0, 0)
    ELSE IF len - cursor = 0
    THEN LET bounds == get_line_bounds_around_index(cursor - 1)
         IN IF bounds.st = "panic" THEN Panicked ELSE slice(cursor, bounds.s, bounds.e)
    ELSE LET line == get_line_bounds_around_index(cursor)
             bounds == get_line_bounds_around_index(line.s - 1)
         IN IF line.st = "panic" THEN Panicked
            ELSE IF line.s = 0 THEN Returned(cursor, 0, 0)
            ELSE IF bounds.st = "panic" THEN Panicked
            ELSE slice(cursor, bounds.s, bounds.e)

peek_next_line ==
    IF cursor >= len THEN Returned(cursor, 0, 0)
    ELSE LET line == get_line_bounds_around_index(cursor)
             next_line_start == get_index_after_line_break(line.e)
             bounds == get_line_bounds_around_index(next_line_start)
         IN IF line.st = "panic" THEN Panicked
            ELSE IF line.e >= len THEN Returned(cursor, 0, 0)
            ELSE IF bounds.st = "panic" THEN Panicked
            ELSE IF debug_build /\ next_line_start # bounds.s THEN Panicked
            ELSE slice(cursor, bounds.s, bounds.e)

\* An operation op with argument arg ran and ended as r.
Called(op, arg, r) ==
    /\ reader_out.st # "panic"
    /\ reader_out' = [op |-> op, arg |-> arg, before |-> cursor,
                      st |-> r.st, lo |-> r.lo, hi |-> r.hi]
    /\ cursor' = IF r.st = "ok" THEN r.c ELSE cursor
    /\ UNCHANGED <<other_than_reader, data, debug_build>>

Seek ==
    \E from \in {"Start", "Current", "End"} : \E offset \in SeekOffsets(from) :
        Called("seek", <<from, offset>>, seek(from, offset))

GetN == \E n \in Counts : Called("get_n", <<n>>, get_n(n))

PeekAheadN == \E n \in Counts : Called("peek_ahead_n", <<n>>, peek_ahead_n(n))

PeekBehindN == \E n \in Counts : Called("peek_behind_n", <<n>>, peek_behind_n(n))

GetUntilDelimiter == Called("get_until_delimiter", <<>>, get_until_delimiter)

GetCurrentWord == Called("get_current_word", <<>>, get_current_word)

GetNextWord == Called("get_next_word", <<>>, get_next_word)

GetInCharset == \E S \in Charsets : Called("get_in_charset", <<S>>, get_in_charset(S))

GetUntilCharset == \E S \in Charsets : Called("get_until_charset", <<S>>, get_until_charset(S))

GetCurrentLine == Called("get_current_line", <<>>, get_current_line)

GetRestOfLine == Called("get_rest_of_line", <<>>, get_rest_of_line)

PeekPrecedingPartOfLine ==
    Called("peek_preceding_part_of_line", <<>>, peek_preceding_part_of_line)

PeekPrecedingLine == Called("peek_preceding_line", <<>>, peek_preceding_line)

PeekNextLine == Called("peek_next_line", <<>>, peek_next_line)

NextReader ==
    \/ Seek
    \/ GetN
    \/ PeekAheadN
    \/ PeekBehindN
    \/ GetUntilDelimiter
    \/ GetCurrentWord
    \/ GetNextWord
    \/ GetInCharset
    \/ GetUntilCharset
    \/ GetCurrentLine
    \/ GetRestOfLine
    \/ PeekPrecedingPartOfLine
    \/ PeekPrecedingLine
    \/ PeekNextLine

ReaderSpec == InitReader /\ [][NextReader]_vars

\* ---------------------------------------------------------------- parse_object_at
\* The byte classes of util.rs.
is_octal(c) == 48 <= c /\ c <= 55

is_whitespace(c) == c \in Whitespace

is_delimiter(c) == c \in {60, 62, 40, 41, 91, 93, 123, 125, 47, 37}

is_hex(c) == (48 <= c /\ c <= 57) \/ (65 <= c /\ c <= 70) \/ (97 <= c /\ c <= 102)

is_eol(c) == c \in {10, 13}

is_body_keyword_letter(c) ==
    c \in {101, 110, 100, 115, 116, 114, 97, 109, 111, 98, 106, 117, 108, 102}

\* The constructors of PdfObject.
new_boolean(b) == PdfObject("Boolean", <<IF b THEN 1 ELSE 0>>, <<>>)

new_number_int(n) == PdfObject("NumberInt", <<n>>, <<>>)

\* The payload of a float is kept as the text it was parsed from.
new_number_float(text) == PdfObject("NumberFloat", text, <<>>)

new_name(text) == PdfObject("Name", text, <<>>)

new_char_string(text) == PdfObject("CharString", text, <<>>)

new_hex_string(bytes) == PdfObject("HexString", bytes, <<>>)

new_array(items) == PdfObject("Array", <<>>, items)

new_dictionary(entries) == PdfObject("Dictionary", <<>>, entries)

new_reference(id, gen) == PdfObject("Reference", <<id, gen>>, <<>>)

\* What a Reference resolves to when the resolver answers with an object.
ReferentInt == 7
ReferentName == <<65>>

\* link.get() of a Reference made during the parse: an integer, a name, an
\* Err of the resolver, or a panic (the weak pointer is dead, or the resolver
\* is already borrowed by the parse that asks).
Referents == {"NumberInt", "Name", "err", "panic"}

\* PdfObject::is_int and PdfObject::is_name: "true", "false" or "panic".
is_x(o, t) ==
    IF o.t = "Reference"
    THEN CASE referent = "panic" -> "panic"
           [] referent = t -> "true"
           [] OTHER -> "false"
    ELSE IF o.t = t THEN "true" ELSE "false"

\* PdfObject::try_into_int of an object is_int accepted.
try_into_int(o) == IF o.t = "Reference" THEN ReferentInt ELSE o.v[1]

\* PdfObject::try_into_string of an object is_name accepted.
try_into_string(o) == IF o.t = "Reference" THEN ReferentName ELSE o.v

\* String::from_utf8_lossy on bytes of which none continues another: a byte
\* of 128 or more becomes U+FFFD.
from_utf8_lossy(bytes) == [i \in 1..Len(bytes) |-> IF bytes[i] >= 128 THEN 65533 ELSE bytes[i]]

RECURSIVE digits_value(_)
digits_value(ds) ==
    IF ds = <<>> THEN 0
    ELSE 10 * digits_value(SubSeq(ds, 1, Len(ds) - 1)) + (ds[Len(ds)] - 48)

Flushed(o) == [st |-> "ok", obj |-> o, err |-> "none"]

NotFlushed(e) == [st |-> "err", obj |-> Null, err |-> e]

\* flush_buffer_to_object; the buffer of a Number holds a sign at most in
\* front, digits and at most one point.
flush_buffer_to_object(state, depth, buffer) ==
    CASE state = "HexString" ->
           IF \E i \in 1..Len(buffer) : ~is_hex(buffer[i])
           THEN NotFlushed("ParsingError")
           ELSE Flushed(new_hex_string(buffer))
      [] state = "CharString" ->
           IF depth = 0 THEN Flushed(new_char_string(from_utf8_lossy(buffer)))
           ELSE NotFlushed("ParsingError")
      [] state = "Name" -> Flushed(new_name(buffer))
      [] state = "Number" ->
           LET signed == buffer # <<>> /\ buffer[1] \in {43, 45}
               digits == SelectSeq(buffer, LAMBDA b : b \in 48..57)
           IN IF digits = <<>> THEN NotFlushed("ParseError")
              ELSE IF 46 \in {buffer[i] : i \in 1..Len(buffer)}
              THEN Flushed(new_number_float(buffer))
              ELSE Flushed(new_number_int(IF signed /\ buffer[1] = 45
                                          THEN 0 - digits_value(digits)
                                          ELSE digits_value(digits)))
      [] OTHER -> NotFlushed("ParsingError")

make_array_from_object_buffer(object_buffer) == new_array(object_buffer)

\* HashMap::insert on the entries of a dictionary, kept in the order in which
\* their keys first came.
dict_insert(dict, key, value) ==
    IF \E i \in 1..Len(dict) : dict[i].key = key
    THEN [i \in 1..Len(dict) |-> IF dict[i].key = key
                                 THEN [key |-> key, value |-> value] ELSE dict[i]]
    ELSE Append(dict, [key |-> key, value |-> value])

\* make_dict_from_object_buffer, its loop from entry i of the buffer on: the
\* dictionary, an Err or a panic, and whether a Reference was resolved.
RECURSIVE make_dict_from(_, _, _, _)
make_dict_from(object_buffer, i, dict, res) ==
    IF i > Len(object_buffer)
    THEN [st |-> "ok", obj |-> new_dictionary(dict), res |-> res]
    ELSE LET key == object_buffer[i]
             asked == res \/ key.t = "Reference"
         IN CASE is_x(key, "Name") = "panic" -> [st |-> "panic", obj |-> Null, res |-> asked]
              [] is_x(key, "Name") = "false" -> [st |-> "err", obj |-> Null, res |-> asked]
              [] OTHER ->
                   IF i + 1 > Len(object_buffer)
                   THEN [st |-> "err", obj |-> Null, res |-> asked]
                   ELSE make_dict_from(object_buffer, i + 2,
                                       dict_insert(dict, try_into_string(key),
                                                   object_buffer[i + 1]),
                                       asked)

make_dict_from_object_buffer(object_buffer) == make_dict_from(object_buffer, 1, <<>>, FALSE)

\* The locals of one parse_object_at call.
Frame(state, depth, type, char_buffer, object_buffer) ==
    [state |-> state, depth |-> depth, this_object_type |-> type,
     char_buffer |-> char_buffer, object_buffer |-> object_buffer]

NewFrame == Frame("Neutral", 0, "Unknown", <<>>, <<>>)

\* What one turn of the loop does: go on with the frame f and the reader at
\* pos, call parse_object_at at pos, return an object, return an Err, panic,
\* or hand the rest of the input to make_stream_object.
Go(f, pos) == [k |-> "go", f |-> f, pos |-> pos, obj |-> Null, err |-> "none", res |-> FALSE]

CallAt(f, pos) == [k |-> "call", f |-> f, pos |-> pos, obj |-> Null, err |-> "none", res |-> FALSE]

Done(o, pos, res) == [k |-> "ok", f |-> NewFrame, pos |-> pos, obj |-> o, err |-> "none", res |-> res]

Fail(e, pos, res) == [k |-> "err", f |-> NewFrame, pos |-> pos, obj |-> Null, err |-> e, res |-> res]

Abort(pos, res) == [k |-> "panic", f |-> NewFrame, pos |-> pos, obj |-> Null, err |-> "none", res |-> res]

StreamAt(pos) == [k |-> "stream", f |-> NewFrame, pos |-> pos, obj |-> Null, err |-> "none", res |-> FALSE]

\* A flushed object goes to the object buffer and the state becomes Neutral,
\* with the reader at pos; an Err of the flush is returned.
PushFlushed(f, pos) ==
    LET o == flush_buffer_to_object(f.state, f.depth, f.char_buffer)
    IN IF o.st = "err" THEN Fail(o.err, pos, FALSE)
       ELSE Go([f EXCEPT !.state = "Neutral", !.depth = 0, !.char_buffer = <<>>,
                         !.object_buffer = Append(@, o.obj)], pos)

\* reader.peek_ahead_n(n) with the reader at pos.
ahead(pos, n) == SubSeq(data, pos + 1, bound_n(pos + n))

\* The `R` arm of Neutral.
reference_from(f, pos) ==
    LET buf == f.object_buffer
        n == Len(buf)
    IN IF n <= 1 THEN Fail("ParsingError", pos, FALSE)
       ELSE LET id == buf[n - 1]
                gen == buf[n]
                id_is_int == is_x(id, "NumberInt")
                gen_is_int == is_x(gen, "NumberInt")
                asked == id.t = "Reference" \/ (id_is_int = "true" /\ gen.t = "Reference")
            IN CASE id_is_int = "panic" -> Abort(pos, asked)
                 [] id_is_int = "false" -> Fail("ParsingError", pos, asked)
                 [] id_is_int = "true" /\ gen_is_int = "panic" -> Abort(pos, asked)
                 [] id_is_int = "true" /\ gen_is_int = "false" -> Fail("ParsingError", pos, asked)
                 [] OTHER ->
                      IF try_into_int(id) < 0 \/ try_into_int(gen) < 0
                      THEN Fail("ParsingError", pos, asked)
                      ELSE [Go([f EXCEPT !.object_buffer =
                                   Append(SubSeq(buf, 1, n - 2),
                                          new_reference(try_into_int(id), try_into_int(gen)))],
                               pos)
                            EXCEPT !.res = asked]

\* The Neutral arm for the byte c, the reader at pos after reading it.
neutral(f, c, pos) ==
    CASE c = 91 ->
           IF f.this_object_type = "Unknown"
           THEN Go([f EXCEPT !.this_object_type = "Array"], pos)
           ELSE CallAt(f, pos - 1)
      [] c = 93 ->
           IF f.this_object_type = "Array"
           THEN Done(make_array_from_object_buffer(f.object_buffer), pos, FALSE)
           ELSE Fail("ParsingError", pos, FALSE)
      [] c = 60 /\ ahead(pos, 1) = <<60>> ->
           IF f.this_object_type = "Unknown"
           THEN Go([f EXCEPT !.this_object_type = "Dict"], bound_n(pos + 1))
           ELSE CallAt(f, pos - 1)
      [] c = 60 /\ ahead(pos, 1) # <<60>> -> Go([f EXCEPT !.state = "HexString"], pos)
      [] c = 62 /\ ahead(pos, 1) = <<62>> ->
           IF f.this_object_type = "Dict"
           THEN LET d == make_dict_from_object_buffer(f.object_buffer)
                IN CASE d.st = "ok" -> Done(d.obj, bound_n(pos + 1), d.res)
                     [] d.st = "err" -> Fail("ParsingError", bound_n(pos + 1), d.res)
                     [] OTHER -> Abort(bound_n(pos + 1), d.res)
           ELSE Fail("ParsingError", pos, FALSE)
      [] c = 40 -> Go([f EXCEPT !.state = "CharString", !.depth = 0], pos)
      [] c = 47 -> Go([f EXCEPT !.state = "Name"], pos)
      [] c = 82 -> reference_from(f, pos)
      [] c \in {115, 101, 111, 110, 116, 102} ->
           Go([f EXCEPT !.state = "Keyword", !.char_buffer = Append(@, c)], pos)
      [] c \in 48..57 \cup {43, 45} -> Go([f EXCEPT !.state = "Number"], bound_n(pos - 1))
      [] OTHER ->
           IF is_whitespace(c) THEN Go(f, pos) ELSE Fail("ParsingError", pos, FALSE)

\* The HexString arm.
hex_string(f, c, pos) ==
    CASE c = 62 -> PushFlushed(f, pos)
      [] is_hex(c) -> Go([f EXCEPT !.char_buffer = Append(@, c)], pos)
      [] OTHER -> IF is_whitespace(c) THEN Go(f, pos) ELSE Fail("ParsingError", pos, FALSE)

\* The octal escape of the CharString arm: d is the digit after the
\* backslash, the reader at pos after reading it. code is a u8: a product or
\* sum above 255 panics in a build with overflow checks and wraps otherwise.
octal_escape(f, d, pos) ==
    LET peek_next_digits == ahead(pos, 2)
        first == d - 48
        second == IF Len(peek_next_digits) > 0 /\ is_octal(peek_next_digits[1])
                  THEN first * 8 + (peek_next_digits[1] - 48)
                  ELSE first
        three == Len(peek_next_digits) = 2 /\ is_octal(peek_next_digits[2])
        third == IF three THEN second * 8 + (peek_next_digits[2] - 48) ELSE second
    IN IF third > 255 /\ debug_build THEN Abort(pos, FALSE)
       ELSE Go([f EXCEPT !.char_buffer = Append(@, third % 256)],
               bound_n(pos + (IF three THEN 2 ELSE 1)))

\* The CharString arm.
char_string(f, c, pos) ==
    CASE c = 41 /\ f.depth = 0 -> PushFlushed(f, pos)
      [] c = 41 /\ f.depth > 0 -> Go([f EXCEPT !.depth = @ - 1], pos)
      [] c = 40 -> Go([f EXCEPT !.depth = @ + 1], pos)
      [] c = 92 ->
           IF pos >= len THEN Go(f, pos)
           ELSE LET e == byte_at(pos)
                    after == pos + 1
                IN CASE e = 15 -> Go(f, IF ahead(after, 1) = <<12>>
                                        THEN bound_n(after + 1) ELSE after)
                     [] e = 12 -> Go(f, after)
                     [] e \in {92, 40, 41} -> Go([f EXCEPT !.char_buffer = Append(@, e)], after)
                     [] is_octal(e) -> octal_escape(f, e, after)
                     [] OTHER -> Go(f, after)
      [] OTHER -> Go([f EXCEPT !.char_buffer = Append(@, c)], pos)

\* The Name arm.
name(f, c, pos) ==
    IF c # 37 /\ (is_whitespace(c) \/ is_delimiter(c))
    THEN PushFlushed(f, bound_n(pos - 1))
    ELSE Go([f EXCEPT !.char_buffer = Append(@, c)], pos)

\* A Number arm that steps back at the end of the number and stays in the
\* Number state.
number_without_leaving(f, c, pos) ==
    CASE c \in 48..57 -> Go([f EXCEPT !.char_buffer = Append(@, c)], pos)
      [] OTHER -> Go(f, bound_n(pos - 1))

\* The Number arm.
number(f, c, pos) ==
    CASE c \in 48..57 -> Go([f EXCEPT !.char_buffer = Append(@, c)], pos)
      [] c \in {43, 45} /\ f.char_buffer = <<>> ->
           Go([f EXCEPT !.char_buffer = Append(@, c)], pos)
      [] c = 46 ->
           IF 46 \in {f.char_buffer[i] : i \in 1..Len(f.char_buffer)}
           THEN Fail("ParsingError", pos, FALSE)
           ELSE Go([f EXCEPT !.char_buffer = Append(@, c)], pos)
      [] OTHER ->
           IF is_whitespace(c) \/ is_delimiter(c)
           THEN PushFlushed(f, bound_n(pos - 1))
           ELSE Fail("ParsingError", pos, FALSE)

\* The keywords of the Keyword arm, as bytes.
Keywords ==
    [obj |-> <<111, 98, 106>>, endobj |-> <<101, 110, 100, 111, 98, 106>>,
     stream |-> <<115, 116, 114, 101, 97, 109>>,
     endstream |-> <<101, 110, 100, 115, 116, 114, 101, 97, 109>>,
     null |-> <<110, 117, 108, 108>>, false |-> <<102, 97, 108, 115, 101>>,
     true |-> <<116, 114, 117, 101>>]

\* The Keyword arm. At `stream` make_stream_object takes the parse over: what
\* it makes is modelled by ParseStream, here the parse ends.
keyword(f, c, pos) ==
    IF is_body_keyword_letter(c) THEN Go([f EXCEPT !.char_buffer = Append(@, c)], pos)
    ELSE IF ~(is_delimiter(c) \/ is_whitespace(c)) THEN Fail("ParsingError", pos, FALSE)
    ELSE LET s == f.char_buffer
             cleared == [f EXCEPT !.char_buffer = <<>>, !.state = "Neutral"]
         IN CASE s = Keywords.endobj ->
                   IF f.this_object_type = "IndirectObj"
                   THEN LET o == make_object_from_object_buffer(f.object_buffer)
                        IN IF o.st = "ok" THEN Done(o.obj, pos, FALSE)
                           ELSE Fail("ParsingError", pos, FALSE)
                   ELSE Fail("ParsingError", pos, FALSE)
              [] s = Keywords.stream -> StreamAt(pos)
              [] s = Keywords.obj ->
                   IF f.this_object_type # "Unknown" THEN Fail("ParsingError", pos, FALSE)
                   ELSE Go([cleared EXCEPT !.this_object_type = "IndirectObj"],
                           bound_n(pos - 1))
              [] s = Keywords.true ->
                   Go([cleared EXCEPT !.object_buffer = Append(@, new_boolean(TRUE))],
                      bound_n(pos - 1))
              [] s = Keywords.null ->
                   Go([cleared EXCEPT !.object_buffer = Append(@, Null)], bound_n(pos - 1))
              [] OTHER -> Fail("ParsingError", pos, FALSE)

\* The inputs of a parse: tokens, each followed by a space, between the
\* brackets of a dictionary or an array (one token more where an `R` is to
\* find a Reference and an integer before it); a literal string in an array,
\* of nested parentheses, of one escaped byte, or of an octal escape; and a
\* hexadecimal string in an array. The hexadecimal digits are a capital and a
\* decimal one.
RECURSIVE Flatten(_)
Flatten(tokens) ==
    IF tokens = <<>> THEN <<>> ELSE tokens[1] \o <<32>> \o Flatten(Tail(tokens))

DictTokens == {<<47, 65>>, <<47, 66>>, <<49>>, <<40, 97, 41>>, <<82>>}

ReferenceTokens == {<<49>>, <<45, 49>>, <<47, 65>>, <<82>>}

KeywordTokens == {Keywords.true, Keywords.false, Keywords.null, <<49>>, <<91>>, <<93>>}

EscapedBytes == {110, 114, 116, 98, 102, 120, 92, 40, 41}

\* Tokens that follow each other without white space, in an input that may
\* end before its brackets are closed: `1`, `[`, `]`, `<<`, `>>`, `/A`, `true`,
\* `(` and `<A`.
PackedTokens ==
    {<<49>>, <<91>>, <<93>>, <<60, 60>>, <<62, 62>>, <<47, 65>>, Keywords.true, <<40>>, <<60, 65>>}

RECURSIVE Packed(_)
Packed(tokens) == IF tokens = <<>> THEN <<>> ELSE tokens[1] \o Packed(Tail(tokens))

PackedInputs(n) == {Packed(ts) : ts \in SeqsUpTo(PackedTokens, n)}

ParseInputs(n, m) ==
    {<<60, 60, 32>> \o Flatten(ts) \o <<62, 62>> : ts \in SeqsUpTo(DictTokens, n)}
    \cup {<<91, 32>> \o Flatten(ts) \o <<93>> : ts \in SeqsUpTo(ReferenceTokens, n + 1)}
    \cup {<<91, 32>> \o Flatten(ts) \o <<93>> : ts \in SeqsUpTo(KeywordTokens, n)}
    \cup {<<91, 40>> \o body \o <<93>> : body \in SeqsUpTo({97, 40, 41, 92}, m)}
    \cup {<<91, 40, 92, c, 41, 93>> : c \in EscapedBytes}
    \cup {<<91, 40, 97, 92, c, 97, 41, 93>> : c \in EscapedBytes}
    \cup {<<91, 40, 92>> \o body \o <<41, 93>> : body \in SeqsUpTo({49, 55, 56, 97, 41}, m - 2)}
    \cup {<<91, 60>> \o body \o <<93>> : body \in SeqsUpTo({65, 49, 103, 32, 62}, m - 2)}
    \cup PackedInputs(n)

Bytes(input) == {input[i] : i \in 1..Len(input)}

\* parse_object_at(reader, 0, weak_ref) is called. The build only matters to
\* the arithmetic of an escape and the resolver only to a Reference, which
\* only an `R` makes.
InitParseOn(inputs) ==
    /\ NoResolver
    /\ NoStream
    /\ NoPageTree
    /\ NoContents
    /\ NoXref
    /\ NoObjStm
    /\ NoFilter
    /\ NoBuild
    /\ data \in inputs
    /\ cursor = 0
    /\ debug_build \in (IF 92 \in Bytes(data) THEN BOOLEAN ELSE {FALSE})
    /\ reader_out = NoReaderOut
    /\ parse_stack = <<NewFrame>>
    /\ parse_out = NoParseOut
    /\ referent \in (IF 82 \in Bytes(data) THEN Referents ELSE {"err"})
    /\ resolved = FALSE

InitParse == InitParseOn(ParseInputs(MaxTokens, MaxText))

InitPacked == InitParseOn(PackedInputs(MaxTokens))

other_than_parser == <<resolver_vars, stream_vars, page_vars, contents_vars, xref_vars, objstm_vars, filter_vars, build_vars>>

other_than_objstm == <<resolver_vars, stream_vars, page_vars, contents_vars, xref_vars, reader_vars, parse_vars, filter_vars, build_vars>>

other_than_filter == <<resolver_vars, stream_vars, page_vars, contents_vars, xref_vars, reader_vars, parse_vars, objstm_vars, build_vars>>

other_than_build == <<resolver_vars, stream_vars, page_vars, contents_vars, xref_vars, reader_vars, parse_vars, objstm_vars, filter_vars>>

\* The frame of the parse_object_at call that is running.
Top == parse_stack[Len(parse_stack)]

Callers == SubSeq(parse_stack, 1, Len(parse_stack) - 1)

\* The result r of one turn of the loop takes effect. An object returned to
\* a calling parse_object_at goes to its object buffer; `?` passes an Err on.
Turn(r) ==
    /\ cursor' = r.pos
    /\ resolved' = (resolved \/ r.res)
    /\ parse_stack' =
         CASE r.k = "go" -> Append(Callers, r.f)
           [] r.k = "call" -> Append(Append(Callers, r.f), NewFrame)
           [] r.k = "ok" /\ Callers # <<>> ->
                [Callers EXCEPT ![Len(Callers)].object_buffer = Append(@, r.obj)]
           [] OTHER -> <<>>
    /\ parse_out' =
         CASE r.k = "ok" /\ Callers = <<>> -> [st |-> "ok", obj |-> r.obj, err |-> "none"]
           [] r.k = "err" -> [st |-> "err", obj |-> Null, err |-> r.err]
           [] r.k = "panic" -> [st |-> "panic", obj |-> Null, err |-> "none"]
           [] r.k = "stream" -> [st |-> "stream", obj |-> Null, err |-> "none"]
           [] OTHER -> parse_out
    /\ UNCHANGED <<other_than_parser, data, debug_build, reader_out, referent>>

\* reader.read_n(1) gives a byte and the state is s.
Reads(s) == parse_stack # <<>> /\ cursor < len /\ Top.state = s

EndOfFile ==
    /\ parse_stack # <<>>
    /\ cursor >= len
    /\ Turn(Fail("ParsingError", cursor, FALSE))

Neutral == Reads("Neutral") /\ Turn(neutral(Top, byte_at(cursor), cursor + 1))

HexString == Reads("HexString") /\ Turn(hex_string(Top, byte_at(cursor), cursor + 1))

CharString == Reads("CharString") /\ Turn(char_string(Top, byte_at(cursor), cursor + 1))

Name == Reads("Name") /\ Turn(name(Top, byte_at(cursor), cursor + 1))

Number == Reads("Number") /\ Turn(number(Top, byte_at(cursor), cursor + 1))

Keyword == Reads("Keyword") /\ Turn(keyword(Top, byte_at(cursor), cursor + 1))

NextParse ==
    \/ EndOfFile
    \/ Neutral
    \/ HexString
    \/ CharString
    \/ Name
    \/ Number
    \/ Keyword

ParseSpec == InitParse /\ [][NextParse]_vars

\* parse_object_at on the packed inputs; its loop runs on until the call
\* returns.
ParseLiveSpec == InitPacked /\ [][NextParse]_vars /\ WF_vars(NextParse)

\* ---------------------------------------------------------------- new_object_stream
\* The values of /N and /First.
IntEntries(values) ==
    {NoEntry, [k |-> "name", v |-> 0]} \cup {[k |-> "int", v |-> v] : v \in values}

\* A word of the header: a number of 0 or more as it is written, and -1 for
\* a word that str::parse does not take for an unsigned integer.
Words == -1..2

\* The decoded data of an object stream is len bytes long; where /First is a
\* position in it, words are the whitespace-separated words before it.
ObjectStreams(n) ==
    [N : IntEntries(-1..2), First : IntEntries({-1, 0, 3}), words : SeqsUpTo(Words, n),
     utf8 : BOOLEAN, len : {2, 5}]

InitObjStm ==
    /\ NoResolver
    /\ NoStream
    /\ NoPageTree
    /\ NoContents
    /\ NoXref
    /\ NoParse
    /\ NoFilter
    /\ NoBuild
    /\ data = <<>>
    /\ cursor = 0
    /\ debug_build \in BOOLEAN
    /\ reader_out = NoReaderOut
    /\ objstm \in ObjectStreams(MaxWords)
    /\ object_index = {}
    /\ objstm_pc = "new"
    /\ objstm_out = NoObjStmOut

\* object_index.insert(ObjectId(id, 0), at)
index_insert(index, id, at) == {e \in index : e.id # id} \cup {[id |-> id, at |-> at]}

\* The loop of new_object_stream over the words from word i on: the index,
\* or the ParsingError of a word without a partner or of a word that is no
\* unsigned integer.
RECURSIVE index_from(_, _, _, _)
index_from(words, i, first_object_start, index) ==
    IF i > Len(words) THEN [st |-> "ok", index |-> index]
    ELSE IF i + 1 > Len(words) \/ words[i] < 0 \/ words[i + 1] < 0
    THEN [st |-> "err", index |-> {}]
    ELSE index_from(words, i + 2, first_object_start,
                    index_insert(index, words[i], words[i + 1] + first_object_start))

ObjStmDone(st, err) ==
    /\ objstm_pc' = "done"
    /\ objstm_out' = [NoObjStmOut EXCEPT !.op = "new", !.st = st, !.err = err]
    /\ object_index' = {}

\* PdfObject::new_object_stream. `as usize` makes a negative /N or /First a
\* number larger than every length.
NewObjectStream ==
    /\ objstm_pc = "new"
    /\ LET N == objstm.N
           First == objstm.First
           built == index_from(objstm.words, 1, First.v, {})
       IN IF N.k # "int" \/ First.k # "int" THEN ObjStmDone("err", "ParsingError")
          ELSE IF First.v = 0 THEN ObjStmDone("panic", "assert")
          ELSE IF First.v < 0 \/ First.v > objstm.len THEN ObjStmDone("panic", "slice")
          ELSE IF ~objstm.utf8 THEN ObjStmDone("err", "ParsingError")
          ELSE IF built.st = "err" THEN ObjStmDone("err", "ParsingError")
          ELSE IF debug_build /\ Cardinality(built.index) # N.v
          THEN ObjStmDone("panic", "debug_assert_eq")
          ELSE /\ objstm_pc' = "built"
               /\ object_index' = built.index
               /\ objstm_out' = [NoObjStmOut EXCEPT !.op = "new", !.st = "ok"]
    /\ UNCHANGED <<other_than_objstm, objstm>>

\* ObjectStreamCache::retrieve_object_by_ref(id): the value is parsed at the
\* position the index gives.
ObjStmRetrieve(id) ==
    /\ objstm_pc = "built"
    /\ objstm_pc' = "done"
    /\ objstm_out' =
         IF \E e \in object_index : e.id = id
         THEN [op |-> "retrieve", st |-> "ok", err |-> "none", id |-> id,
               at |-> (CHOOSE e \in object_index : e.id = id).at]
         ELSE [op |-> "retrieve", st |-> "err", err |-> "ReferenceError", id |-> id, at |-> 0]
    /\ UNCHANGED <<other_than_objstm, objstm, object_index>>

NextObjStm ==
    \/ NewObjectStream
    \/ \E id \in 0..2 : ObjStmRetrieve(id)

ObjStmSpec == InitObjStm /\ [][NextObjStm]_vars

\* ---------------------------------------------------------------- filters
\* (decode.rs) The filters are pure functions of the bytes they are given;
\* a job names the filter, its input and its /DecodeParms.

\* "41aA", blank, ">", "<" and "G"
HexBytes == {52, 49, 97, 65, 32, 62, 60, 71}

\* "!", the quote (digit 1), "z", "~", ">" and blank: the digits are small
\* enough for the value of a group to stay under 2^31.
Ascii85Bytes == {33, 34, 122, 126, 62, 32}

EndOfAscii85 == <<126, 62>>

PredictorBytes == {0, 1, 2, 255}

PredictorParams ==
    [map : BOOLEAN,
     Predictor : IntEntries({1, 2, 10, 12, 15}),
     Columns : IntEntries({1, 2})]

FilterJobs(h, a, p) ==
    {[filter |-> "ASCIIHex", data |-> d, params |-> NoParams] : d \in SeqsUpTo(HexBytes, h)}
    \cup {[filter |-> "ASCII85", data |-> d \o t, params |-> NoParams] :
            d \in SeqsUpTo(Ascii85Bytes, a), t \in {<<>>, EndOfAscii85}}
    \cup {[filter |-> "Flate", data |-> d, params |-> ps] :
            d \in SeqsUpTo(PredictorBytes, p), ps \in PredictorParams}

InitFilter ==
    /\ NoResolver
    /\ NoStream
    /\ NoPageTree
    /\ NoContents
    /\ NoXref
    /\ NoParse
    /\ NoObjStm
    /\ NoBuild
    /\ data = <<>>
    /\ cursor = 0
    /\ debug_build \in BOOLEAN
    /\ reader_out = NoReaderOut
    /\ filter_job \in FilterJobs(MaxHex, MaxAscii85, MaxDecoded)
    /\ ascii85_iter = [data_cursor |-> 0, new_data |-> <<>>]
    /\ filter_pc = "apply"
    /\ filter_out = NoFilterOut

FilterOk(bytes) == [st |-> "ok", err |-> "none", data |-> bytes]

FilterErr(err) == [st |-> "err", err |-> err, data |-> <<>>]

FilterPanic(what) == [st |-> "panic", err |-> what, data |-> <<>>]

FilterDone(out) ==
    /\ filter_pc' = "done"
    /\ filter_out' = out

\* char::to_digit(16)
to_digit(c) ==
    IF 48 <= c /\ c <= 57 THEN c - 48
    ELSE IF 65 <= c /\ c <= 70 THEN c - 55
    ELSE IF 97 <= c /\ c <= 102 THEN c - 87
    ELSE -1

\* u8::from_str_radix(&hex_pair, 16) of a two-character string: -1 is Err.
from_str_radix(old_c, c) ==
    IF to_digit(old_c) < 0 \/ to_digit(c) < 0 THEN -1
    ELSE 16 * to_digit(old_c) + to_digit(c)

END_OF_DATA == 60

NoChar == -1

\* The loop of apply_ascii_hex from the byte at index i on, and what follows
\* the loop. The buffer keeps its first character once it has one.
RECURSIVE ascii_hex_from(_, _, _, _)
ascii_hex_from(bytes, i, buffer, output) ==
    LET after_loop ==
            IF buffer = NoChar THEN FilterOk(output)
            ELSE IF to_digit(buffer) < 0 THEN FilterPanic("unwrap")
            ELSE FilterOk(Append(output, (16 * to_digit(buffer)) % 256))
    IN IF i > Len(bytes) THEN after_loop
       ELSE LET c == bytes[i]
            IN IF ~is_hex(c) /\ ~is_whitespace(c) THEN FilterErr("FilterError")
               ELSE IF ~is_hex(c) /\ c = END_OF_DATA THEN after_loop
               ELSE IF buffer = NoChar THEN ascii_hex_from(bytes, i + 1, c, output)
               ELSE IF from_str_radix(buffer, c) < 0 THEN FilterPanic("unwrap")
               ELSE ascii_hex_from(bytes, i + 1, buffer,
                                   Append(output, from_str_radix(buffer, c)))

apply_ascii_hex(bytes) == ascii_hex_from(bytes, 1, NoChar, <<>>)

\* Filter::apply on ASCIIHex.
ApplyAsciiHex ==
    /\ filter_pc = "apply"
    /\ filter_job.filter = "ASCIIHex"
    /\ FilterDone(apply_ascii_hex(filter_job.data))
    /\ UNCHANGED <<other_than_filter, filter_job, ascii85_iter>>

is_valid_ascii_85_byte(c) == c = 122 \/ (33 <= c /\ c <= 117)

\* Ascii85Iterator::next with data_cursor at cur and buf in the buffer.
\* last_index is the length of the data; data[i] of the code is d[i + 1].
RECURSIVE ascii85_next(_, _, _)
ascii85_next(d, cur, buf) ==
    LET last_index == Len(d)
        moved == cur + 1
    IN IF cur > last_index THEN [kind |-> "None", data_cursor |-> cur, group |-> <<>>]
       ELSE IF cur >= Len(d) THEN [kind |-> "panic", data_cursor |-> cur, group |-> <<>>]
       ELSE LET next_char == d[cur + 1]
                filled == Append(buf, next_char)
            IN IF moved = last_index
                   THEN [kind |-> "Some", data_cursor |-> moved, group |-> buf]
               ELSE IF is_whitespace(next_char) THEN ascii85_next(d, moved, buf)
               ELSE IF next_char = 126 /\ moved < last_index /\ moved + 1 >= Len(d)
                   THEN [kind |-> "panic", data_cursor |-> moved, group |-> <<>>]
               ELSE IF next_char = 126 /\ moved < last_index /\ d[moved + 2] = 62
                   THEN [kind |-> "None", data_cursor |-> moved, group |-> <<>>]
               ELSE IF Len(filled) > 4 \/ next_char = 122
                   THEN [kind |-> "Some", data_cursor |-> moved, group |-> filled]
               ELSE ascii85_next(d, moved, filled)

\* u32 arithmetic on a value under 2^31: value.pow(2) wraps at 2^32. The
\* square is computed byte by byte; big says that it is 2^31 or more.
square_u32(value) ==
    LET a0 == value % 256
        a1 == (value \div 256) % 256
        a2 == (value \div 65536) % 256
        a3 == value \div 16777216
        t0 == a0 * a0
        t1 == 2 * a0 * a1 + t0 \div 256
        t2 == 2 * a0 * a2 + a1 * a1 + t1 \div 256
        t3 == 2 * a0 * a3 + 2 * a1 * a2 + t2 \div 256
        big == t3 % 256 >= 128
    IN [overflow |-> value >= 65536,
        big |-> big,
        v |-> IF big THEN 0
              ELSE (t0 % 256) + 256 * (t1 % 256) + 65536 * (t2 % 256) + 16777216 * (t3 % 256)]

\* u32::pow
pow_u32(value, exp) ==
    IF exp = 0 THEN [overflow |-> FALSE, big |-> FALSE, v |-> 1]
    ELSE IF exp = 1 THEN [overflow |-> FALSE, big |-> FALSE, v |-> value]
    ELSE square_u32(value)

\* The second loop of _parse_ascii_85_group: for exp in (0..3).rev().
RECURSIVE base_256_digits(_, _, _, _)
base_256_digits(base_256_value, exp, bytes, debug) ==
    IF exp < 0 THEN FilterOk(bytes)
    ELSE LET place_value == pow_u32(base_256_value, exp)
         IN IF place_value.overflow /\ debug THEN FilterPanic("overflow")
            ELSE IF place_value.big
                THEN base_256_digits(base_256_value, exp - 1, Append(bytes, 0), debug)
            ELSE IF place_value.v = 0 THEN FilterPanic("divide by zero")
            ELSE base_256_digits(base_256_value % place_value.v, exp - 1,
                                 Append(bytes, (base_256_value \div place_value.v) % 256),
                                 debug)

\* The first loop of _parse_ascii_85_group from the byte at index i on.
RECURSIVE parse_ascii_85_from(_, _, _, _)
parse_ascii_85_from(vec, i, base_256_value, debug) ==
    IF i > Len(vec) THEN base_256_digits(base_256_value, 2, <<>>, debug)
    ELSE LET c == vec[i]
         IN IF ~is_valid_ascii_85_byte(c) THEN FilterErr("FilterError")
            ELSE IF c = 122 /\ Len(vec) > 1 THEN FilterErr("FilterError")
            ELSE IF c = 122 THEN FilterOk(<<0, 0, 0, 0>>)
            ELSE parse_ascii_85_from(vec, i + 1, base_256_value * 85 + (c - 33), debug)

_parse_ascii_85_group(vec, debug) == parse_ascii_85_from(vec, 1, 0, debug)

\* Filter::apply on ASCII85 starts the iterator of apply_ascii_85.
ApplyAscii85 ==
    /\ filter_pc = "apply"
    /\ filter_job.filter = "ASCII85"
    /\ filter_pc' = "groups"
    /\ ascii85_iter' = [data_cursor |-> 0, new_data |-> <<>>]
    /\ UNCHANGED <<other_than_filter, filter_job, filter_out>>

\* One turn of the for loop of apply_ascii_85: the next group, decoded.
Ascii85Group ==
    /\ filter_pc = "groups"
    /\ LET item == ascii85_next(filter_job.data, ascii85_iter.data_cursor, <<>>)
           bytes == _parse_ascii_85_group(item.group, debug_build)
       IN IF item.kind = "panic"
              THEN FilterDone(FilterPanic("index")) /\ UNCHANGED ascii85_iter
          ELSE IF item.kind = "None"
              THEN FilterDone(FilterOk(ascii85_iter.new_data)) /\ UNCHANGED ascii85_iter
          ELSE IF bytes.st # "ok"
              THEN FilterDone(bytes) /\ UNCHANGED ascii85_iter
          ELSE /\ ascii85_iter' = [data_cursor |-> item.data_cursor,
                                   new_data |-> ascii85_iter.new_data \o bytes.data]
               /\ UNCHANGED <<filter_pc, filter_out>>
    /\ UNCHANGED <<other_than_filter, filter_job>>

\* png_predictor: row line_ix from column col_ix on, then the rows after it.
RECURSIVE png_rows(_, _, _, _, _)
png_rows(bytes, line_length, line_ix, col_ix, new_data) ==
    IF line_ix >= Len(bytes) \div (line_length + 1) THEN new_data
    ELSE IF col_ix >= line_length THEN png_rows(bytes, line_length, line_ix + 1, 0, new_data)
    ELSE LET index == line_ix * (line_length + 1) + col_ix + 1
             prior_line_index == (line_ix - 1) * line_length + col_ix
             new_val == bytes[index + 1] + new_data[prior_line_index + 1]
         IN png_rows(bytes, line_length, line_ix, col_ix + 1, Append(new_data, new_val % 256))

png_predictor(bytes, line_length) ==
    IF Len(bytes) % (line_length + 1) # 0 THEN FilterPanic("assert_eq")
    ELSE IF line_length + 1 > Len(bytes) THEN FilterPanic("slice")
    ELSE FilterOk(png_rows(bytes, line_length, 1, 0, SubSeq(bytes, 2, line_length + 1)))

_apply_predictors(params, bytes) ==
    IF ~params.map THEN FilterErr("UnavailableType")
    ELSE IF params.Predictor.k = "absent" THEN FilterOk(bytes)
    ELSE IF params.Predictor.k # "int" THEN FilterErr("UnavailableType")
    ELSE IF params.Predictor.v # 12 THEN FilterOk(bytes)
    ELSE IF params.Columns.k = "absent" THEN FilterPanic("unwrap")
    ELSE IF params.Columns.k # "int" THEN FilterErr("UnavailableType")
    ELSE png_predictor(bytes, params.Columns.v)

\* Filter::apply on Flate with parameters, from the inflated data on.
ApplyPredictors ==
    /\ filter_pc = "apply"
    /\ filter_job.filter = "Flate"
    /\ FilterDone(_apply_predictors(filter_job.params, filter_job.data))
    /\ UNCHANGED <<other_than_filter, filter_job, ascii85_iter>>

NextFilter ==
    \/ ApplyAsciiHex
    \/ ApplyAscii85
    \/ Ascii85Group
    \/ ApplyPredictors

FilterSpec == InitFilter /\ [][NextFilter]_vars

\* ---------------------------------------------------------------- PageTree::new
\* (pdf_doc.rs) The objects the /Pages entry of the catalog leads to. An
\* object is something that is no dictionary, a dictionary without /Type or
\* with a /Type that is no name, a Page, a node of another type, a Catalog
\* with or without /Pages, or a Pages node whose /Kids is absent, no array,
\* or an array of references.
ObjectKind(kind, pages, kids) == [kind |-> kind, Pages |-> pages, Kids |-> kids]

ObjectKinds(n) ==
    {ObjectKind(k, 0, <<>>) :
        k \in {"no map", "no Type", "Type no name", "Page", "NotImplemented",
               "Root", "Pages no Kids", "Kids no array"}}
    \cup {ObjectKind("Root", p, <<>>) : p \in Ids}
    \cup {ObjectKind("PageTreeIntermediate", 0, kids) : kids \in SeqsUpTo(Ids, n)}

InitBuild ==
    /\ NoResolver
    /\ NoStream
    /\ NoPageTree
    /\ NoContents
    /\ NoXref
    /\ NoReader
    /\ NoParse
    /\ NoObjStm
    /\ NoFilter
    /\ objects \in [Ids -> ObjectKinds(MaxKids)]
    /\ new_node \in Ids
    /\ add_node_stack = <<>>
    /\ tree_len = 0
    /\ build_out = NoBuildOut

\* An Err goes up through the `?` of every add_node in progress.
BuildFails(err) ==
    /\ build_out' = [st |-> "err", err |-> err]
    /\ new_node' = 0
    /\ add_node_stack' = <<>>
    /\ UNCHANGED tree_len

\* A call of add_node on the object new_node, up to the recursive call it
\* makes or its return. There is no frame for it when the native stack
\* already holds StackLimit frames.
AddNode ==
    /\ new_node # 0
    /\ build_out.st = "none"
    /\ LET node_map == objects[new_node]
           inserted == tree_len + 1
       IN IF Len(add_node_stack) >= StackLimit
          THEN /\ build_out' = [st |-> "stack overflow", err |-> "none"]
               /\ UNCHANGED <<new_node, add_node_stack, tree_len>>
          ELSE CASE node_map.kind = "no map" -> BuildFails("TestingError")
                 [] node_map.kind = "no Type" -> BuildFails("DocTreeError")
                 [] node_map.kind = "Type no name" -> BuildFails("UnavailableType")
                 [] node_map.kind = "Root" /\ node_map.Pages = 0 ->
                      /\ BuildFails("DocTreeError")
                 [] node_map.kind = "Root" /\ node_map.Pages # 0 ->
                      /\ tree_len' = inserted
                      /\ add_node_stack' = Append(add_node_stack, [node |-> new_node, kid |-> 0])
                      /\ new_node' = node_map.Pages
                      /\ UNCHANGED build_out
                 [] node_map.kind \in {"Pages no Kids", "Kids no array"} ->
                      BuildFails("DocTreeError")
                 [] node_map.kind = "PageTreeIntermediate" ->
                      /\ tree_len' = inserted
                      /\ add_node_stack' = Append(add_node_stack, [node |-> new_node, kid |-> 1])
                      /\ new_node' = 0
                      /\ UNCHANGED build_out
                 [] OTHER ->
                      /\ tree_len' = inserted
                      /\ new_node' = 0
                      /\ UNCHANGED <<add_node_stack, build_out>>
    /\ UNCHANGED <<other_than_build, objects>>

\* The add_node on top goes on after a call returned Ok: the `for kid` loop
\* calls add_node on the next kid; after the last kid, and after the /Pages
\* of a Root, it returns Ok itself.
AddNodeGoesOn ==
    /\ new_node = 0
    /\ add_node_stack # <<>>
    /\ LET depth == Len(add_node_stack)
           frame == add_node_stack[depth]
           kids == objects[frame.node].Kids
       IN IF frame.kid >= 1 /\ frame.kid <= Len(kids)
          THEN /\ new_node' = kids[frame.kid]
               /\ add_node_stack' = [add_node_stack EXCEPT ![depth].kid = @ + 1]
          ELSE /\ new_node' = 0
               /\ add_node_stack' = SubSeq(add_node_stack, 1, depth - 1)
    /\ UNCHANGED <<other_than_build, objects, tree_len, build_out>>

\* PageTree::new returns the tree.
PageTreeNew ==
    /\ new_node = 0
    /\ add_node_stack = <<>>
    /\ build_out.st = "none"
    /\ build_out' = [st |-> "ok", err |-> "none"]
    /\ UNCHANGED <<other_than_build, objects, new_node, add_node_stack, tree_len>>

NextBuild ==
    \/ AddNode
    \/ AddNodeGoesOn
    \/ PageTreeNew

BuildSpec == InitBuild /\ [][NextBuild]_vars

\* ================================================================ claims

\* Some id has two retrieve_object_by_ref frames on the call stack.
Reentered ==
    \E i, j \in DOMAIN stack :
        /\ i < j
        /\ stack[i].k = "retrieve" /\ stack[j].k = "retrieve"
        /\ stack[i].id = stack[j].id

\* C1: on one ObjectCache, a cache entry is never removed or replaced, and a
\* retrieve_object_by_ref for a cached id returns a clone of that very Rc
\* without starting a parse.
C1_CachedInstanceIsStable ==
    [][/\ alive' => \A x \in Ids : cache[x] # NoObject => cache'[x] = cache[x]
       /\ (Running("retrieve", "enter") /\ ~Missed)
             => /\ ret' = Ok(cache[top.id], top.id)
                /\ parses' = parses
                /\ stack' = rest]_vars

\* A retrieval of an id returned the instance cached before a later instance
\* was allocated: it was served from the cache, after one parse of the id.
C1_Witness ==
    /\ Idle /\ alive
    /\ call.kind = "retrieve"
    /\ ret.st = "ok"
    /\ ret.obj = cache[call.id]
    /\ ret.obj.s + 1 < next_serial
    /\ parses[call.id] = 1

\* C2: every object retrieve_object_by_ref returns, and every object in the
\* cache, is an Actual value, never a Reference.
C2_ResolvedObjectsAreActual ==
    /\ \A x \in Ids : ~IsReference(cache[x])
    /\ (ret.st = "ok" /\ ret.src # 0) => ~IsReference(ret.obj)

\* C3: a retrieve_object_by_ref that returns an error leaves no entry for its
\* id and changes no entry; entries cached on the way stay; and a retrieval
\* of an uncached id with an offset starts a parse whatever happened before.
C3_ErrorsAreNotCached ==
    [][/\ (status = "running" /\ stack # <<>> /\ top.k = "retrieve"
             /\ stack' = rest /\ ret'.st = "err")
             => (cache'[top.id] = NoObject /\ cache' = cache)
       /\ alive' => \A y \in Ids : cache[y] # NoObject => cache'[y] = cache[y]
       /\ (Running("retrieve", "enter") /\ Missed /\ ~BorrowConflict
             /\ index_map[top.id].loc = "Uncompressed")
             => parses'[top.id] = parses[top.id] + 1]_vars

\* The second retrieval of a stream whose indirect /Length names an array has
\* failed like the first, after a second parse; the array stays cached.
C3_Witness ==
    /\ Idle
    /\ call.kind = "retrieve"
    /\ ret.st = "err" /\ ret.src = call.id
    /\ parses[call.id] = 2
    /\ cache[call.id] = NoObject
    /\ \E y \in Ids \ {call.id} :
          /\ file[call.id] = Body("stream_ref", y)
          /\ cache[y].t = "Array"

\* C4: a resolution of id X that needs X again before it has finished ends
\* with an error value: the ObjectCache of object_cache.rs neither overflows
\* the stack nor panics while X is re-entered.
C4_CyclicResolutionIsAnError ==
    (resolver = "object_cache" /\ Reentered) => status = "running"

\* C5: when a retrieve_object_by_ref for an uncached B starts inside the parse
\* of a different id A, no RefCell of the resolver is mutably borrowed, and
\* the nested call does not end in a double-borrow panic.
C5_NestedRetrieveBorrowFree ==
    \A i, j \in DOMAIN stack :
        (/\ i < j
         /\ stack[i].k = "retrieve" /\ stack[i].pc = "await_length"
         /\ stack[j].k = "retrieve" /\ stack[j].pc = "enter"
         /\ stack[i].id # stack[j].id
         /\ cache[stack[j].id] = NoObject)
        => /\ ~reader_borrowed
           /\ ~cache_borrowed
           /\ status # "panic_borrow"

\* C6: an id with an uncompressed location is returned, and cached, only if
\* the `N G obj` header at the indexed offset names that id and generation.
C6_HeaderMatchesRequestedId ==
    /\ (ret.st = "ok" /\ ret.src # 0 /\ index_map[ret.src].loc = "Uncompressed")
          => header_at(index_map[ret.src].at) = <<ret.src, 0>>
    /\ \A x \in Ids :
          (cache[x] # NoObject /\ index_map[x].loc = "Uncompressed")
             => header_at(index_map[x].at) = <<x, 0>>

C8_UnknownIdIsReferenceError ==
    [][(resolver = "object_cache" /\ Running("retrieve", "enter") /\ Missed
          /\ index_map[top.id] = NoLocation)
          => /\ ret' = Err("ReferenceError", top.id)
             /\ stack' = rest
             /\ cache' = cache
             /\ parses' = parses
             /\ status' = "running"]_vars

\* The caller's retrieval of an id missing from the index came back.
C8_Witness ==
    /\ Idle
    /\ resolver = "object_cache"
    /\ call.kind = "retrieve"
    /\ index_map[call.id] = NoLocation
    /\ ret = Err("ReferenceError", call.id)
    /\ parses[call.id] = 0

\* C9: an accessor called on a Reference whose resolver has been dropped
\* returns an error; it does not panic.
C9_DroppedResolverIsAnError ==
    ~alive => status # "panic_upgrade"

\* What accessor op yields on the object o the cache holds, following cached
\* References.
RECURSIVE accessor_on_resolved(_, _, _)
accessor_on_resolved(op, o, fuel) ==
    IF ~IsReference(o) THEN apply_actual(op, o)
    ELSE IF fuel = 0 \/ cache[o.v] = NoObject THEN Err("unresolved", 0)
    ELSE accessor_on_resolved(op, cache[o.v], fuel - 1)

\* C10: an accessor called on a Reference to X returns, when X resolves, what
\* the same accessor returns on the resolved object, and an Err when X does
\* not resolve.
C10_ReferenceAccessorsResolveFirst ==
    (Idle /\ call.kind = "access" /\ ret.st # "none")
    => IF cache[call.id] = NoObject
       THEN ret.st = "err"
       ELSE LET e == accessor_on_resolved(call.op, cache[call.id], NumIds)
            IN /\ ret.st = e.st
               /\ ret.obj = e.obj
               /\ ~IsReference(cache[call.id]) => ret = e

\* try_into_int on a Reference to an integer object returned the integer.
C10_Witness ==
    /\ Idle
    /\ call.kind = "access" /\ call.op = "int"
    /\ cache[call.id].t = "NumberInt"
    /\ ret = Ok(NumberInt(cache[call.id].v), 0)

\* try_into_int has come back from the element of the array `[k 0 R]` that is
\* the body of object k itself.
SelfArrayElementAsInt ==
    /\ Idle /\ alive
    /\ call.kind = "access" /\ call.op = "int"
    /\ index_map[call.id] = Uncompressed(call.id)
    /\ file[call.id] = Body("array", call.id)
    /\ ret.st # "none"

\* C11 (as claimed): object k with body `[k 0 R]` resolves to an Array holding
\* an unresolved Reference to k, and try_into_int on that element returns a
\* ReferenceError.
C11_SelfArrayElementIsReferenceError ==
    SelfArrayElementAsInt
    => /\ cache[call.id].t = "Array"
       /\ cache[call.id].v = call.id
       /\ ret.st = "err"
       /\ ret.err = "ReferenceError"

\* C11 (amended): object k with body `[k 0 R]` resolves to an Array holding an
\* unresolved Reference to k, and try_into_int on that element terminates with
\* the error of a type mismatch, UnavailableType: the element resolves to the
\* cached array, which is not an integer.
C11_SelfArrayElementIsTypeMismatch ==
    /\ SelfArrayElementAsInt
       => /\ cache[call.id].t = "Array"
          /\ cache[call.id].v = call.id
          /\ ret = Err("UnavailableType", 0)
    /\ (/\ alive /\ call.kind = "access" /\ call.op = "int"
        /\ index_map[call.id] = Uncompressed(call.id)
        /\ file[call.id] = Body("array", call.id))
       => status = "running" /\ ~Reentered

\* The accessor on the self-referencing element has returned its error.
C11_Witness ==
    /\ SelfArrayElementAsInt
    /\ cache[call.id] # NoObject
    /\ apply_actual("index", cache[call.id]) = Ok(Reference(call.id), 0)
    /\ ret.st = "err"

\* /Length is absent, is no integer, is negative, or asks for more bytes than
\* the data holds.
BadLength ==
    \/ stream_dict.Length = NoObject
    \/ ~is_int(stream_dict.Length)
    \/ stream_dict.Length.v < 0
    \/ stream_dict.Length.v > body_len

Decoded ==
    /\ stream_pc = "done"
    /\ ~BadLength
    /\ determine_stream_type(stream_dict.Type, stream_dict.Subtype)
          \in {"XRef", "Object", "Content"}

\* C19: when /Filter holds names and one of them, at any position, is not a
\* known filter name, decode_stream returns a FilterError and has applied no
\* filter.
C19_UnknownFilterFailsDecode ==
    (/\ Decoded
     /\ stream_dict.Filter.form \in {"name", "array"}
     /\ \E i \in DOMAIN stream_dict.Filter.names :
           stream_dict.Filter.names[i] \notin KnownFilters)
    => /\ stream_out.st = "err"
       /\ stream_out.err = "FilterError"
       /\ stream_out.applied = <<>>

\* C20: a stream that decodes is built as the variant its dictionary names:
\* /Type XRef binary, /Type ObjStm object stream, /Subtype Image binary,
\* /Type Metadata binary, anything else content stream; classification gives
\* no error.
C20_ClassifiedFromDictionary ==
    (stream_pc = "done" /\ ~BadLength /\ decode_stream(stream_dict).st = "ok")
    => /\ stream_out.st = "ok"
       /\ stream_out.kind =
             (IF stream_dict.Type = "XRef" THEN "BinaryStream"
              ELSE IF stream_dict.Type = "ObjStm" THEN "ObjectStream"
              ELSE IF stream_dict.Subtype = "Image" THEN "BinaryStream"
              ELSE IF stream_dict.Type = "Metadata" THEN "BinaryStream"
              ELSE "ContentStream")

\* Every intermediate node's /Count is the number of Page leaves under it.
RECURSIVE WellCounted(_)
WellCounted(node) ==
    \/ node.type = "Page"
    \/ /\ node.count = leaves(node)
       /\ \A i \in DOMAIN node.kids : WellCounted(node.kids[i])

\* The Page leaves under a node in depth-first /Kids order, as indices.
RECURSIVE page_leaves(_, _), page_leaves_of(_, _, _)
page_leaves(node, index) ==
    IF node.type = "Page" THEN <<index>> ELSE page_leaves_of(node.kids, index, 1)

page_leaves_of(kids, index, i) ==
    IF i > Len(kids) THEN <<>>
    ELSE page_leaves(kids[i], Append(index, i)) \o page_leaves_of(kids, index, i + 1)

\* C13: in a page tree whose /Count entries are right, get_page(n) with
\* 1 <= n <= page_count returns the n-th Page leaf in depth-first /Kids order,
\* and the iteration over pages() ends having yielded page_count pages.
C13_GetPageFindsNthLeaf ==
    WellCounted(tree)
    => /\ (page_pc \in {"returned", "finished"} /\ page_number >= 1
             /\ page_number <= page_count)
             => /\ page = [st |-> "Some", index |-> page_leaves(tree, <<>>)[page_number]]
                /\ node_at(tree, page.index).type = "Page"
       /\ counter <= page_count
       /\ page_pc = "finished" => counter = page_count /\ current_page = page_count + 1

\* The iteration over a tree with pages at two depths has ended.
C13_Witness ==
    /\ WellCounted(tree)
    /\ page_pc = "finished"
    /\ counter = page_count
    /\ counter >= 3
    /\ tree.kids[1].type = "Page"

\* C14: get_page(n) with n = 0 or n > page_count returns None; it does not
\* panic.
C14_OutOfRangePageIsNone ==
    (page_pc \in {"returned", "finished"}
       /\ (page_number = 0 \/ page_number > page_count))
    => page.st = "None"

\* C15: get_attribute returns the value of the deepest node between the root
\* and the page, the page included, that defines the key, and None exactly
\* when no node on that path defines it.
C15_NearestDefinitionWins ==
    attribute # NoAttribute
    => LET on_path(d) == node_at(tree, SubSeq(page.index, 1, d))
           defining == {d \in 0..Len(page.index) : on_path(d).attr # 0}
       IN IF defining = {} THEN attribute = [st |-> "None", v |-> 0]
          ELSE \E d \in defining :
                  /\ \A e \in defining : e <= d
                  /\ attribute = [st |-> "Some", v |-> on_path(d).attr]

\* A page under an intermediate node took the intermediate node's value,
\* which also shadows the root's.
C15_Witness ==
    /\ attribute.st = "Some"
    /\ Len(page.index) = 2
    /\ node_at(tree, page.index).attr = 0
    /\ node_at(tree, parent(page.index)).attr = attribute.v
    /\ tree.attr # 0


\* ---------------------------------------------------------------- C16
\* out is the data of the streams in order, with one whitespace byte between
\* each two consecutive streams.
RECURSIVE Separated(_, _)
Separated(items, out) ==
    IF Len(items) = 0 THEN out = <<>>
    ELSE IF Len(items) = 1 THEN out = items[1].data
    ELSE LET d == items[1].data IN
            /\ Len(out) > Len(d)
            /\ SubSeq(out, 1, Len(d)) = d
            /\ out[Len(d) + 1] \in Whitespace
            /\ Separated(Tail(items), SubSeq(out, Len(d) + 2, Len(out)))

\* C16: contents_as_binary returns the decoded bytes of a /Contents that is
\* one stream, and for a /Contents that is an array of streams their decoded
\* bytes in array order with exactly one whitespace byte between each two
\* consecutive streams.
C16_ContentBytesAreSeparatedStreams ==
    content_bytes.st # "none" =>
        /\ contents.t \in {"BinaryStream", "ContentStream"} =>
                content_bytes = [st |-> "some", data |-> contents.data]
        /\ contents.t = "Array" =>
                content_bytes.st = "some" /\ Separated(contents.items, content_bytes.data)

\* ---------------------------------------------------------------- C17
\* The entries of a table read from line i on, id being the object number of
\* the next entry and togo the entries its subsection still has; ok says that
\* every subsection has the entries its header counts and that a `trailer`
\* line follows the last.
RECURSIVE TableEntries(_, _, _, _)
TableEntries(t, i, id, togo) ==
    IF i > Len(t) THEN [ok |-> FALSE, entries |-> {}]
    ELSE CASE t[i].kind = "trailer" -> [ok |-> togo = 0, entries |-> {}]
           [] t[i].kind = "header" ->
                IF togo # 0 THEN [ok |-> FALSE, entries |-> {}]
                ELSE TableEntries(t, i + 1, t[i].first, t[i].count)
           [] t[i].kind = "entry" ->
                IF togo = 0 THEN [ok |-> FALSE, entries |-> {}]
                ELSE LET later == TableEntries(t, i + 1, id + 1, togo - 1) IN
                        [ok |-> later.ok,
                         entries |-> later.entries \cup
                            {[id |-> id, gen |-> t[i].gen, mark |-> t[i].mark,
                              offset |-> t[i].offset]}]
           [] OTHER -> [ok |-> FALSE, entries |-> {}]

\* A table of whole subsections that give no object number twice.
WellFormed(t) ==
    /\ TableEntries(t, 1, 0, 0).ok
    /\ \A a, b \in TableEntries(t, 1, 0, 0).entries : a.id = b.id => a = b

\* C17: for a table of subsections `first count`, process_standard_xref_table
\* returns the index that holds (first + k, generation) -> offset exactly for
\* the entries marked `n`, k being the entry's position in its subsection; an
\* entry marked `f` is not in the index and still takes an object number.
C17_IndexHoldsTheEntriesInUse ==
    (xref_pc = "done" /\ pdf.at = "xref" /\ pdf.startxref = "startxref"
        /\ pdf.offset = "integer" /\ pdf.eof = "%%EOF" /\ WellFormed(pdf.table)) =>
        /\ pdf_out.st = "ok"
        /\ xref_index = {[id |-> e.id, gen |-> e.gen, offset |-> e.offset] :
                            e \in {x \in TableEntries(pdf.table, 1, 0, 0).entries : x.mark = "n"}}

\* ---------------------------------------------------------------- C18
\* C18: create_pdf_from_file returns an Err value, and does not panic, for a
\* file whose last line is not `%%EOF`, or whose line before it is not an
\* integer, or whose line before that is not `startxref`.
C18_MalformedTrailerIsAnErr ==
    (xref_pc = "done"
        /\ (pdf.eof # "%%EOF" \/ pdf.offset # "integer" \/ pdf.startxref # "startxref")) =>
        pdf_out.st = "err"

\* ---------------------------------------------------------------- C21
\* Where the target of a seek lies: base + offset in unbounded arithmetic.
SeekTarget(from, offset, before) ==
    LET base == CASE from = "Start" -> 0 [] from = "Current" -> before [] from = "End" -> len
    IN CASE offset.k \in {"u64::MAX", "i64::MAX"} -> "beyond"
         [] offset.k = "i64::MIN" -> "below"
         [] offset.k = "value" -> IF base + offset.v < 0 THEN "below"
                                  ELSE IF base + offset.v > len THEN "beyond"
                                  ELSE "within"

\* C21: after every sequence of reader operations the cursor is in 0..len;
\* every seek returns Ok, lands on 0 when its target is below 0, on len when
\* its target is beyond len, and on its target otherwise.
C21_CursorStaysInBounds ==
    /\ 0 <= cursor /\ cursor <= len
    /\ reader_out.op = "seek" =>
        /\ reader_out.st = "ok"
        /\ SeekTarget(reader_out.arg[1], reader_out.arg[2], reader_out.before) = "below"
                => cursor = 0
        /\ SeekTarget(reader_out.arg[1], reader_out.arg[2], reader_out.before) = "beyond"
                => cursor = len

\* ---------------------------------------------------------------- C22
\* C22: no reader operation panics, whatever the buffer (the empty one too)
\* and wherever in 0..len the cursor is.
C22_ReaderOperationsAreTotal == reader_out.st # "panic"

\* The parse returned the object o.
ParsedAs(o) == parse_out = [st |-> "ok", obj |-> o, err |-> "none"]

ParsingFailed == parse_out.st = "err" /\ parse_out.err = "ParsingError"

\* The outermost parse_object_at reads `>>` in a dictionary.
ClosesDict ==
    /\ Reads("Neutral")
    /\ Len(parse_stack) = 1
    /\ Top.this_object_type = "Dict"
    /\ byte_at(cursor) = 62
    /\ ahead(cursor + 1, 1) = <<62>>

\* The entries a buffer of keys and values stands for: of the pairs with
\* one key, the last.
PairsOf(buf) ==
    {<<buf[2 * i - 1].v, buf[2 * i]>> : i \in
        {j \in 1..(Len(buf) \div 2) :
            \A k \in (j + 1)..(Len(buf) \div 2) : buf[2 * k - 1].v # buf[2 * j - 1].v}}

EntriesOf(o) == {<<o.items[i].key, o.items[i].value>> : i \in 1..Len(o.items)}

\* C23: `>>` closing a dictionary gives the Dictionary of the consecutive
\* (key, value) pairs of the object buffer, and a ParsingError when the buffer
\* holds an odd number of objects or an object in key position is not itself
\* a Name (a string, a number or a Reference).
C23_DictionaryOfNameKeyedPairs ==
    [][ClosesDict =>
         LET buf == Top.object_buffer
         IN IF Len(buf) % 2 = 0 /\ \A i \in 1..Len(buf) : i % 2 = 1 => buf[i].t = "Name"
            THEN /\ parse_out'.st = "ok"
                 /\ parse_out'.obj.t = "Dictionary"
                 /\ EntriesOf(parse_out'.obj) = PairsOf(buf)
            ELSE ParsingFailed']_vars

\* The parse_object_at that is running reads `R` in Neutral.
ReadsR == Reads("Neutral") /\ byte_at(cursor) = 82

\* C24: `R` in Neutral replaces the last two entries of the object buffer,
\* when both are integers of at least 0, by one Reference of them and leaves
\* the earlier entries; it is a ParsingError otherwise; and in neither case
\* is an indirect object resolved.
C24_ReferenceFromTwoIntegers ==
    [][ReadsR =>
         LET buf == Top.object_buffer
             n == Len(buf)
         IN /\ resolved' = resolved
            /\ IF /\ n >= 2
                  /\ buf[n - 1].t = "NumberInt" /\ buf[n - 1].v[1] >= 0
                  /\ buf[n].t = "NumberInt" /\ buf[n].v[1] >= 0
               THEN /\ Len(parse_stack') = Len(parse_stack)
                    /\ parse_stack'[Len(parse_stack)] =
                         [Top EXCEPT !.object_buffer =
                             Append(SubSeq(buf, 1, n - 2),
                                    new_reference(buf[n - 1].v[1], buf[n].v[1]))]
               ELSE ParsingFailed']_vars

\* The depth of parentheses after the bytes s, or -1 once a `)` had no `(`.
RECURSIVE depth_after(_)
depth_after(s) ==
    IF s = <<>> THEN 0
    ELSE LET before == depth_after(SubSeq(s, 1, Len(s) - 1))
             c == s[Len(s)]
         IN IF before < 0 THEN 0 - 1
            ELSE IF c = 40 THEN before + 1
            ELSE IF c = 41 THEN before - 1
            ELSE before

\* The input is `[(` text `)]`.
StringIn(text) == data = <<91, 40>> \o text \o <<41, 93>>

IsString == Len(data) >= 4 /\ StringIn(SubSeq(data, 3, Len(data) - 2))

StringText == SubSeq(data, 3, Len(data) - 2)

Finished == parse_out.st # "none"

\* C25: a literal string ends at the `)` that balances its `(`, and the
\* balanced parentheses inside it are bytes of the string: `(a(a)a)` is the
\* string a(a)a.
C25_BalancedParenthesesAreKept ==
    (/\ IsString
     /\ Bytes(StringText) \subseteq {97, 40, 41}
     /\ depth_after(StringText) = 0
     /\ Finished)
        => ParsedAs(new_array(<<new_char_string(StringText)>>))

RECURSIVE octal_value(_)
octal_value(ds) ==
    IF ds = <<>> THEN 0
    ELSE 8 * octal_value(SubSeq(ds, 1, Len(ds) - 1)) + (ds[Len(ds)] - 48)

\* The length of the longest run of up to three octal digits s begins with.
run_of(s) ==
    IF Len(s) >= 1 /\ is_octal(s[1])
    THEN IF Len(s) >= 2 /\ is_octal(s[2])
         THEN IF Len(s) >= 3 /\ is_octal(s[3]) THEN 3 ELSE 2
         ELSE 1
    ELSE 0

\* C26: a backslash before one, two or three octal digits gives exactly one
\* byte, the value of the longest run of up to three digits, and the byte
\* after the digits is read as it would be without the escape.
C26_OctalEscapeIsOneByte ==
    (IsString /\ StringText # <<>> /\ StringText[1] = 92) =>
        LET after == Tail(StringText)
            k == run_of(after)
            digits == SubSeq(after, 1, k)
            text == SubSeq(after, k + 1, Len(after))
        IN (/\ k >= 1
            /\ Bytes(text) \subseteq {49, 55, 56, 97}
            /\ octal_value(digits) < 128
            /\ Finished)
               => ParsedAs(new_array(<<new_char_string(<<octal_value(digits)>> \o text)>>))

\* The byte an escaped byte stands for.
Escaped(c) ==
    CASE c = 110 -> 10
      [] c = 114 -> 13
      [] c = 116 -> 9
      [] c = 98 -> 8
      [] c = 102 -> 12
      [] OTHER -> c

\* C27: \n, \r, \t, \b and \f give the bytes 10, 13, 9, 8 and 12; an escaped
\* backslash or parenthesis gives that byte and leaves the depth; a backslash
\* before another byte that is no octal digit and no end of line gives that
\* byte.
C27_EscapesGiveTheirByte ==
    \A c \in EscapedBytes :
        /\ (StringIn(<<92, c>>) /\ Finished)
               => ParsedAs(new_array(<<new_char_string(<<Escaped(c)>>)>>))
        /\ (StringIn(<<97, 92, c, 97>>) /\ Finished)
               => ParsedAs(new_array(<<new_char_string(<<97, Escaped(c), 97>>)>>))

hex_value(c) == IF c <= 57 THEN c - 48 ELSE IF c <= 70 THEN c - 55 ELSE c - 87

\* The bytes the hexadecimal digits ds stand for, a last digit alone padded
\* with 0.
RECURSIVE paired(_)
paired(ds) ==
    CASE ds = <<>> -> <<>>
      [] Len(ds) = 1 -> <<16 * hex_value(ds[1])>>
      [] OTHER -> <<16 * hex_value(ds[1]) + hex_value(ds[2])>> \o paired(SubSeq(ds, 3, Len(ds)))

\* The input is `[<` text `>]`, a `>` only at the end of the text.
IsHex ==
    /\ Len(data) >= 4
    /\ data = <<91, 60>> \o SubSeq(data, 3, Len(data) - 2) \o <<62, 93>>
    /\ 62 \notin Bytes(SubSeq(data, 3, Len(data) - 2))

HexText == SubSeq(data, 3, Len(data) - 2)

\* C28: a hexadecimal string is the bytes of its pairs of digits, whitespace
\* ignored and a last digit alone padded with 0 (`<A>` is the byte 160); a
\* byte before the `>` that is no digit and no whitespace is a ParsingError.
C28_HexDigitsArePaired ==
    (IsHex /\ Finished) =>
        IF \E b \in Bytes(HexText) : ~is_hex(b) /\ ~is_whitespace(b) THEN ParsingFailed
        ELSE ParsedAs(new_array(<<new_hex_string(
                 paired(SelectSeq(HexText, LAMBDA b : ~is_whitespace(b))))>>))

\* The Keyword state reads the delimiter that ends the keyword s.
Completes(s) ==
    /\ Reads("Keyword")
    /\ Top.char_buffer = s
    /\ ~is_body_keyword_letter(byte_at(cursor))
    /\ is_delimiter(byte_at(cursor)) \/ is_whitespace(byte_at(cursor))

\* The keyword pushed o and the parse is back in Neutral before the delimiter.
Pushed(o) ==
    /\ Len(parse_stack') = Len(parse_stack)
    /\ parse_stack'[Len(parse_stack)] =
         [Top EXCEPT !.state = "Neutral", !.char_buffer = <<>>,
                     !.object_buffer = Append(@, o)]
    /\ cursor' = cursor

\* C29: true, false and null, completed in the Keyword state, push
\* Boolean(true), Boolean(false) and Null and the parse goes on in Neutral at
\* the delimiter; none of them is rejected.
C29_KeywordsPushTheirValue ==
    [][/\ Completes(Keywords.true) => Pushed(new_boolean(TRUE))
       /\ Completes(Keywords.false) => Pushed(new_boolean(FALSE))
       /\ Completes(Keywords.null) => Pushed(Null)]_vars

\* C30: after the /Length bytes of the body a stream is accepted only when
\* exactly one line end and then `endstream` follow; with anything else
\* behind the body the parse of the object returns an error.
C30_EndstreamFollowsTheBody ==
    (stream_pc = "done" /\ after_body # "eol endstream") => stream_out.st = "err"

\* ---------------------------------------------------------------- C31
\* The table from line i on is one the claim calls malformed, togo being the
\* entries the open subsection still has and open whether a header was read:
\* a header or `trailer` comes before the count is used up, an entry line
\* comes after it is used up, or an entry has a column that is no integer.
RECURSIVE Miscounted(_, _, _, _)
Miscounted(t, i, togo, open) ==
    IF i > Len(t) THEN FALSE
    ELSE CASE t[i].kind = "trailer" -> togo # 0
           [] t[i].kind = "header" -> togo # 0 \/ Miscounted(t, i + 1, t[i].count, TRUE)
           [] t[i].kind = "entry" ->
                IF togo = 0 THEN open ELSE Miscounted(t, i + 1, togo - 1, open)
           [] t[i].kind = "bad entry" -> TRUE
           [] OTHER -> FALSE

\* find_xref_start_and_type found a classical table.
TableFound ==
    pdf.at = "xref" /\ pdf.startxref = "startxref" /\ pdf.offset = "integer" /\ pdf.eof = "%%EOF"

\* C31: process_standard_xref_table returns a ParsingError and no index for a
\* table in which a subsection has fewer or more entry lines than its header
\* counts or an entry column is no integer, and it panics on no line, an
\* empty one included.
C31_MiscountedTableIsAParsingError ==
    (xref_pc = "done" /\ TableFound) =>
        /\ pdf_out.st # "panic"
        /\ Miscounted(pdf.table, 1, 0, FALSE) => pdf_out = [st |-> "err", err |-> "ParsingError"]

\* ---------------------------------------------------------------- C32
\* The stream's dictionary and header are as the claim takes them: /N and
\* /First are integers, /First is a position in the data, and the header
\* begins with /N pairs of unsigned integers that name /N different ids.
HeaderOfN ==
    /\ objstm.N.k = "int" /\ objstm.N.v >= 0
    /\ objstm.First.k = "int" /\ objstm.First.v >= 0 /\ objstm.First.v <= objstm.len
    /\ objstm.utf8
    /\ Len(objstm.words) >= 2 * objstm.N.v
    /\ \A i \in 1..(2 * objstm.N.v) : objstm.words[i] >= 0
    /\ \A i, j \in 1..objstm.N.v : objstm.words[2 * i - 1] = objstm.words[2 * j - 1] => i = j

\* The first /N pairs of the header, each at /First + its relative offset.
FirstNPairs ==
    {[id |-> objstm.words[2 * i - 1], at |-> objstm.First.v + objstm.words[2 * i]] :
        i \in 1..objstm.N.v}

\* C32: the sub-resolver of an object stream indexes exactly the ids of the
\* first /N pairs of the header, each at /First + its relative offset;
\* retrieving an indexed id parses the value at that position and retrieving
\* another id is a ReferenceError.
C32_IndexOfTheFirstNPairs ==
    (HeaderOfN /\ objstm_pc # "new") =>
        /\ objstm_out.op = "new" => objstm_out.st = "ok" /\ object_index = FirstNPairs
        /\ objstm_out.op = "retrieve" =>
              IF objstm_out.id \in {e.id : e \in FirstNPairs}
              THEN \E e \in FirstNPairs :
                      objstm_out = [op |-> "retrieve", st |-> "ok", err |-> "none",
                                    id |-> e.id, at |-> e.at]
              ELSE objstm_out.st = "err" /\ objstm_out.err = "ReferenceError"

\* ---- C33
\* The bytes of the input before its first `>`, all of them without one.
BeforeTerminator(bytes) ==
    IF \E i \in 1..Len(bytes) : bytes[i] = 62
    THEN SubSeq(bytes, 1, (CHOOSE i \in 1..Len(bytes) :
                             bytes[i] = 62 /\ \A j \in 1..(i - 1) : bytes[j] # 62) - 1)
    ELSE bytes

\* What ASCIIHexDecode is said to return: a FilterError for a byte before the
\* terminator that is neither a hexadecimal digit nor white space, and else
\* one byte per pair of digits, a last digit alone padded with 0.
AsciiHexDecoded(bytes) ==
    LET body == BeforeTerminator(bytes)
    IN IF \E i \in 1..Len(body) : ~is_hex(body[i]) /\ ~is_whitespace(body[i])
       THEN FilterErr("FilterError")
       ELSE FilterOk(paired(SelectSeq(body, is_hex)))

\* C33: ASCIIHexDecode returns one byte per pair of hexadecimal digits of
\* either case, skips white space, stops at `>`, pads an unpaired last digit
\* with 0 and returns a FilterError, never a panic, on any other byte; so the
\* upper-case hexadecimal encoding of a byte string decodes to that string.
C33_AsciiHexDecodes ==
    (filter_pc = "done" /\ filter_job.filter = "ASCIIHex")
        => filter_out = AsciiHexDecoded(filter_job.data)

\* ---- C34
\* The input is body followed by the end marker `~>`.
Ascii85Body == SubSeq(filter_job.data, 1, Len(filter_job.data) - 2)

Ascii85Marked ==
    /\ filter_job.filter = "ASCII85"
    /\ Len(filter_job.data) >= 2
    /\ SubSeq(filter_job.data, Len(filter_job.data) - 1, Len(filter_job.data)) = EndOfAscii85

Ascii85Digits(g) == \A i \in 1..Len(g) : 33 <= g[i] /\ g[i] <= 117

RECURSIVE Base85Value(_)
Base85Value(g) ==
    IF g = <<>> THEN 0 ELSE 85 * Base85Value(SubSeq(g, 1, Len(g) - 1)) + (g[Len(g)] - 33)

FourBytes(value) ==
    <<value \div 16777216, (value \div 65536) % 256, (value \div 256) % 256, value % 256>>

\* C34: ASCII85Decode ends on every input without reading past the end of the
\* data; a full group of five characters decodes to the four bytes of its
\* base-85 value, a `z` in place of a group to four zero bytes, a last group
\* of k >= 2 characters to k - 1 bytes, and a `z` inside a group is a
\* FilterError.
C34_Ascii85Decodes ==
    (filter_pc = "done" /\ filter_job.filter = "ASCII85") =>
        /\ filter_out.st # "panic"
        /\ (Ascii85Marked /\ Len(Ascii85Body) = 5 /\ Ascii85Digits(Ascii85Body))
               => filter_out = FilterOk(FourBytes(Base85Value(Ascii85Body)))
        /\ (Ascii85Marked /\ Ascii85Body = <<122>>)
               => filter_out = FilterOk(<<0, 0, 0, 0>>)
        /\ (Ascii85Marked /\ Len(Ascii85Body) \in 2..4 /\ Ascii85Digits(Ascii85Body))
               => filter_out.st = "ok" /\ Len(filter_out.data) = Len(Ascii85Body) - 1
        /\ (Ascii85Marked /\ Len(Ascii85Body) \in 2..5
                /\ Ascii85Digits(SubSeq(Ascii85Body, 1, Len(Ascii85Body) - 1))
                /\ Ascii85Body[Len(Ascii85Body)] = 122)
               => filter_out = FilterErr("FilterError")

\* ---- C35
PaethPredictor(a, b, c) ==
    LET p == a + b - c
        abs(x) == IF x < 0 THEN -x ELSE x
        pa == abs(p - a)
        pb == abs(p - b)
        pc == abs(p - c)
    IN IF pa <= pb /\ pa <= pc THEN a ELSE IF pb <= pc THEN b ELSE c

\* One row of one-byte pixels reconstructed with PNG filter f from its raw
\* bytes and the reconstructed row above, up to column n.
RECURSIVE PngRow(_, _, _, _)
PngRow(f, raw, above, n) ==
    IF n = 0 THEN <<>>
    ELSE LET done == PngRow(f, raw, above, n - 1)
             left == IF n = 1 THEN 0 ELSE done[n - 1]
             up == above[n]
             upleft == IF n = 1 THEN 0 ELSE above[n - 1]
             predicted == CASE f = 0 -> 0
                            [] f = 1 -> left
                            [] f = 2 -> up
                            [] f = 3 -> (left + up) \div 2
                            [] OTHER -> PaethPredictor(left, up, upleft)
         IN Append(done, (raw[n] + predicted) % 256)

\* The first rows rows of 1 + c bytes each, reconstructed.
RECURSIVE PngReconstructed(_, _, _)
PngReconstructed(bytes, c, rows) ==
    IF rows = 0 THEN <<>>
    ELSE LET before == PngReconstructed(bytes, c, rows - 1)
             above == IF rows = 1 THEN [i \in 1..c |-> 0]
                      ELSE SubSeq(before, (rows - 2) * c + 1, (rows - 1) * c)
             start == (rows - 1) * (c + 1)
         IN before \o PngRow(bytes[start + 1], SubSeq(bytes, start + 2, start + 1 + c), above, c)

PngRows ==
    /\ filter_job.params.Predictor.k = "int"
    /\ filter_job.params.Predictor.v \in 10..15
    /\ filter_job.params.Columns.k = "int"
    /\ Len(filter_job.data) % (filter_job.params.Columns.v + 1) = 0
    /\ \A i \in 1..Len(filter_job.data) :
           (i - 1) % (filter_job.params.Columns.v + 1) = 0 => filter_job.data[i] \in 0..4

\* C35: with a Predictor of 10 to 15 and Columns c the decoded data is read
\* as rows of 1 + c bytes and each row gives c bytes, reconstructed with the
\* PNG filter its own first byte selects against the row reconstructed before
\* it, modulo 256; with Predictor 1 or none the data is returned unchanged.
C35_PngPredictorPerRow ==
    (filter_pc = "done" /\ filter_job.filter = "Flate" /\ filter_job.params.map) =>
        /\ (filter_job.params.Predictor.k = "absent"
               \/ (filter_job.params.Predictor.k = "int" /\ filter_job.params.Predictor.v = 1))
               => filter_out = FilterOk(filter_job.data)
        /\ PngRows
               => filter_out = FilterOk(PngReconstructed(
                      filter_job.data, filter_job.params.Columns.v,
                      Len(filter_job.data) \div (filter_job.params.Columns.v + 1)))

\* ---- C36
\* The index where the terminator holding the EOL byte at index i starts, and
\* the number of bytes of the terminator that starts at index t.
TerminatorStart(i) == IF byte_at(i) = 10 /\ i > 0 /\ byte_at(i - 1) = 13 THEN i - 1 ELSE i

TerminatorLength(t) == IF byte_at(t) = 13 /\ t + 1 < len /\ byte_at(t + 1) = 10 THEN 2 ELSE 1

\* Where the line of the byte at index i ends: at the terminator i is in, or
\* at the first EOL byte after i, or at the end of the data.
LineEnd(i) ==
    IF eol_at(i) THEN TerminatorStart(i)
    ELSE IF \E j \in i..(len - 1) : eol_at(j)
    THEN CHOOSE j \in i..(len - 1) : eol_at(j) /\ \A k \in i..(j - 1) : ~eol_at(k)
    ELSE len

\* Where the line that ends at index e starts.
LineStart(e) ==
    CHOOSE s \in 0..e : (s = 0 \/ eol_at(s - 1)) /\ \A k \in s..(e - 1) : ~eol_at(k)

\* C36: get_current_line with the cursor before the end of the data returns
\* the whole line of the cursor without its terminator and leaves the cursor
\* on the first byte after that terminator, CR LF being one terminator and any
\* other two adjacent EOL bytes two; on a terminator byte the line is the one
\* that terminator ends; at the end of the data the slice is empty.
C36_CurrentLineAndCursor ==
    reader_out.op = "get_current_line" =>
        /\ reader_out.st = "ok"
        /\ reader_out.before >= len => reader_out.lo = reader_out.hi
        /\ reader_out.before < len =>
              LET e == LineEnd(reader_out.before)
              IN /\ reader_out.hi = e
                 /\ reader_out.lo = LineStart(e)
                 /\ cursor = IF e = len THEN len ELSE e + TerminatorLength(e)

\* ---- C37
\* What the turn of the loop does that starts in frame f with the reader at
\* pos, a byte of the data.
TurnOf(f, pos) ==
    CASE f.state = "Neutral" -> neutral(f, byte_at(pos), pos + 1)
      [] f.state = "HexString" -> hex_string(f, byte_at(pos), pos + 1)
      [] f.state = "CharString" -> char_string(f, byte_at(pos), pos + 1)
      [] f.state = "Name" -> name(f, byte_at(pos), pos + 1)
      [] f.state = "Number" -> number(f, byte_at(pos), pos + 1)
      [] OTHER -> keyword(f, byte_at(pos), pos + 1)

\* That turn leaves the reader where it was and the loop goes on, in this
\* call or in one it makes.
StepsBack(f, pos) ==
    /\ pos < len
    /\ TurnOf(f, pos).k \in {"go", "call"}
    /\ TurnOf(f, pos).pos <= pos

\* The frame in which the loop goes on after that turn.
FrameAfter(f, pos) == IF TurnOf(f, pos).k = "call" THEN NewFrame ELSE TurnOf(f, pos).f

Parsing == parse_stack # <<>>

\* The next turn, and the one after it, leave the reader where it is.
StalledOnce == Parsing /\ StepsBack(Top, cursor)

StalledTwice == StalledOnce /\ StepsBack(FrameAfter(Top, cursor), cursor)

StalledThrice ==
    /\ StalledTwice
    /\ StepsBack(FrameAfter(FrameAfter(Top, cursor), cursor), cursor)

\* The greatest number of `[` and `<<` open at once in the bytes from index
\* i on, d of them being open at i and m the greatest number so far.
RECURSIVE nesting(_, _, _)
nesting(i, d, m) ==
    LET deeper == IF d + 1 > m THEN d + 1 ELSE m
    IN IF i >= len THEN m
       ELSE IF byte_at(i) = 91 THEN nesting(i + 1, d + 1, deeper)
       ELSE IF byte_at(i) = 60 /\ ahead(i + 1, 1) = <<60>> THEN nesting(i + 2, d + 1, deeper)
       ELSE IF byte_at(i) = 93 THEN nesting(i + 1, IF d > 0 THEN d - 1 ELSE 0, m)
       ELSE IF byte_at(i) = 62 /\ ahead(i + 1, 1) = <<62>>
           THEN nesting(i + 2, IF d > 0 THEN d - 1 ELSE 0, m)
       ELSE nesting(i + 1, d, m)

NestingDepth == nesting(0, 0, 0)

\* C37 (as stated): the reader position strictly increases over any two
\* consecutive turns of the loop of parse_object_at.
C37_TwoTurnsAdvance == ~StalledTwice

\* C37 (amended): parse_object_at terminates; the reader position strictly
\* increases over any three consecutive turns of its loop, a step back being
\* followed by the byte's being consumed or by one recursive call that
\* consumes it; the end of the data before the value is complete is a
\* ParsingError; and the calls in progress never outnumber the nesting depth
\* of `[` and `<<` in the input.
C37_ParseTerminates ==
    /\ <>(~Parsing)
    /\ [](~StalledThrice)
    /\ [](Len(parse_stack) - 1 <= NestingDepth)
    /\ [][(Parsing /\ cursor >= len) => ParsingFailed']_vars

\* The number of `[1[` ended at the `[`, where the reader stepped back and
\* the byte was handed to a recursive call, and the parse has ended at the
\* end of the data.
C37_Witness ==
    /\ ~Parsing
    /\ ParsingFailed
    /\ cursor >= len
    /\ len >= 3
    /\ SubSeq(data, 1, 3) = <<91, 49, 91>>

\* ---- C38
\* C38: building the page tree ends for every object graph, a /Kids array
\* that leads back to an ancestor or to the node itself included, and such a
\* cycle gives an error value, not recursion without bound.
C38_CyclicKidsAreAnError == build_out.st \in {"none", "ok", "err"}

====
